---- MODULE Spec2Model ----
(***************************************************************************)
(* A state-machine model of the Marlin yield-splitting contracts           *)
(* (projects/marlin-contracts/smart_contracts).                            *)
(*                                                                         *)
(* Every ABI method is one atomic action: the AVM commits or discards a    *)
(* whole application call, so a failed `assert` leaves the contract state  *)
(* untouched.  A rejected call is modelled as a step that changes nothing  *)
(* but `last`, the record of the most recent call and its outcome: the     *)
(* message of the assertion that failed, or "" when the call committed.    *)
(*                                                                         *)
(* UInt64 arithmetic on the AVM does not wrap: an overflow or an underflow *)
(* fails the call.  The bounds below keep every intermediate value far     *)
(* under 2^64, so the only arithmetic failure that can occur in the model  *)
(* is a subtraction below zero, which is modelled as a rejection where the *)
(* code can reach it.                                                      *)
(*                                                                         *)
(* Local state is read as 0 for an account that has never been written.    *)
(*                                                                         *)
(* Each contract has its own specification (SpecSplitter, SpecToken,       *)
(* SpecAMM, SpecOracle); the contracts do not call each other.             *)
(***************************************************************************)
EXTENDS Integers, FiniteSets, Sequences, TLC

\* ------------------------------------------------------------------------
\* Accounts.  "creator" is Global.creator_address, the only account that
\* passes `initialize` and therefore the admin / owner of every contract.
\* ------------------------------------------------------------------------
Creator == "creator"

Accounts == {"creator", "alice"}

\* ------------------------------------------------------------------------
\* Bounds of the model.
\* ------------------------------------------------------------------------
\* Global.latest_timestamp when the contracts are initialised.
T0 == 1000

\* The amount arguments of Splitter and token calls.
AmountInputs == {0, 1, 2}

\* Cap on the Splitter's SY + PT in circulation, on its YT in circulation and
\* on the token supply (guards the unbounded credits).
MaxBalance == 3

\* Cap on each AMM reserve, and on the liquidity shares outstanding.
MaxReserve == 5

MaxShares == 5

\* The values the capped counters maturity_count and updater_count take.
Counts == {0, 1, 2}

VARIABLES
    \* host
    now,                 \* Global.latest_timestamp
    last,                \* the most recent call: what it was and how it ended
    \* YieldTokenization
    sp_is_paused,
    maturity_count,
    user_sy_balance,
    user_pt_balance,
    user_yt_balance,
    pt_minted,           \* history: PT credited by all splits so far
    yt_minted,           \* history: YT credited by all splits so far
    \* PTToken / YTToken (one ledger: the two contracts share this code)
    tk_owner,
    tk_maturity,
    tk_total_supply,
    tk_balance,
    tk_allowance,
    \* SimpleAMM
    reserve_a,
    reserve_b,
    fee_rate,
    amm_is_paused,
    total_liquidity,
    liquidity_balance,
    \* PriceOracle
    circuit_breaker_active,
    or_is_paused,
    updater_count,
    token_price,
    price_timestamp,
    price_confidence,
    price_updater,
    threshold_price,
    threshold_active,
    threshold_setter,
    is_updater,
    \* StakingDapp
    st_is_paused,
    total_staked,
    total_rewards_distributed,
    reward_amount,
    reward_interval,
    staked_amount,
    last_reward_time,
    reward_balance,
    \* YTAutoConverter
    oracle_address,
    tokenization_address,
    amm_address,
    conversion_fee,
    cv_is_paused,
    total_conversions,
    conversion_enabled,
    cv_threshold_price,
    conversion_executed,
    cv_yt_balance,
    cv_pt_balance

hostVars == <<now, last>>

splitterVars == <<sp_is_paused, maturity_count, user_sy_balance, user_pt_balance,
                  user_yt_balance, pt_minted, yt_minted>>

tokenVars == <<tk_owner, tk_maturity, tk_total_supply, tk_balance, tk_allowance>>

ammVars == <<reserve_a, reserve_b, fee_rate, amm_is_paused, total_liquidity,
             liquidity_balance>>

oracleVars == <<circuit_breaker_active, or_is_paused, updater_count, token_price,
                price_timestamp, price_confidence, price_updater, threshold_price,
                threshold_active, threshold_setter, is_updater>>

stakingVars == <<st_is_paused, total_staked, total_rewards_distributed, reward_amount,
                 reward_interval, staked_amount, last_reward_time, reward_balance>>

converterVars == <<oracle_address, tokenization_address, amm_address, conversion_fee,
                   cv_is_paused, total_conversions, conversion_enabled,
                   cv_threshold_price, conversion_executed, cv_yt_balance, cv_pt_balance>>

vars == <<hostVars, splitterVars, tokenVars, ammVars, oracleVars, stakingVars,
          converterVars>>

\* What the calls of one contract leave alone: the other contracts' state.
OtherThanSplitter == <<tokenVars, ammVars, oracleVars, stakingVars, converterVars>>

OtherThanToken == <<splitterVars, ammVars, oracleVars, stakingVars, converterVars>>

OtherThanAMM == <<splitterVars, tokenVars, oracleVars, stakingVars, converterVars>>

OtherThanOracle == <<splitterVars, tokenVars, ammVars, stakingVars, converterVars>>

OtherThanStaking == <<splitterVars, tokenVars, ammVars, oracleVars, converterVars>>

OtherThanConverter == <<splitterVars, tokenVars, ammVars, oracleVars, stakingVars>>

\* The record kept in `last`.  op: the method; err: "" when the call
\* committed, else the message of the first assertion that failed; sender:
\* Txn.sender; a1, a2: the numeric arguments and r1, r2: the amounts the
\* call computed (all 0 for a rejected call).  A call happened at `now`;
\* the clock's own step is recorded as the op "tick".
\* h: what a later claim needs to remember of the call (a tuple).
CallH(op, err, sender, a1, a2, r1, r2, h) ==
    IF err = ""
    THEN [op |-> op, err |-> err, sender |-> sender, a1 |-> a1, a2 |-> a2,
          r1 |-> r1, r2 |-> r2, h |-> h]
    ELSE [op |-> op, err |-> err, sender |-> sender, a1 |-> 0, a2 |-> 0,
          r1 |-> 0, r2 |-> 0, h |-> <<>>]

Call(op, err, sender, a1, a2, r1, r2) == CallH(op, err, sender, a1, a2, r1, r2, <<>>)

NoCall == Call("initialize", "", Creator, 0, 0, 0, 0)

Tick == Call("tick", "", Creator, 0, 0, 0, 0)

Committed(op) == last.op = op /\ last.err = ""

RECURSIVE SumOver(_, _)
SumOver(f, S) ==
    IF S = {} THEN 0
    ELSE LET x == CHOOSE y \in S : TRUE IN f[x] + SumOver(f, S \ {x})

Total(f) == SumOver(f, DOMAIN f)

InitHost ==
    /\ now = T0
    /\ last = NoCall

\* ========================================================================
\* YieldTokenization (the Splitter)
\* ========================================================================
THIRTY_DAYS == 2592000

ONE_YEAR == 31536000

\* The timestamps the host clock takes in the Splitter runs, and the
\* maturity arguments callers pass.
SplitterTimes == {T0, T0 + 1, T0 + THIRTY_DAYS}

MaturityInputs == {T0, T0 + 1, T0 + THIRTY_DAYS, T0 + ONE_YEAR, T0 + ONE_YEAR + 1}

\* _maturity_exists: "exists" means no more than "within one year ahead".
MaturityExistsWithoutHorizon(maturity_timestamp) ==
    maturity_timestamp > now

MaturityExists(maturity_timestamp) ==
    /\ maturity_timestamp > now
    /\ maturity_timestamp <= now + ONE_YEAR

\* State after initialize(): unpaused, and _create_maturity_internal has
\* counted the initial 30-day maturity.
InitSplitter ==
    /\ sp_is_paused = 0
    /\ maturity_count = 1
    /\ user_sy_balance = [u \in Accounts |-> 0]
    /\ user_pt_balance = [u \in Accounts |-> 0]
    /\ user_yt_balance = [u \in Accounts |-> 0]
    /\ pt_minted = 0
    /\ yt_minted = 0

\* State after PTToken.initialize(name, symbol, maturity_timestamp) by the
\* creator with a maturity 30 days ahead.
InitToken ==
    /\ tk_owner = Creator
    /\ tk_maturity = T0 + THIRTY_DAYS
    /\ tk_total_supply = 0
    /\ tk_balance = [u \in Accounts |-> 0]
    /\ tk_allowance = [u \in Accounts |-> 0]

\* State after SimpleAMM.initialize(): an empty pool with the 0.3% fee.
InitAMM ==
    /\ reserve_a = 0
    /\ reserve_b = 0
    /\ fee_rate = 3
    /\ amm_is_paused = 0
    /\ total_liquidity = 0
    /\ liquidity_balance = [u \in Accounts |-> 0]

\* No account has set price_updater or threshold_setter yet.
NoAccount == "none"

\* State after PriceOracle.initialize(): no price, no threshold, and the
\* creator the only registered updater.
InitOracle ==
    /\ circuit_breaker_active = 0
    /\ or_is_paused = 0
    /\ updater_count = 1
    /\ token_price = 0
    /\ price_timestamp = 0
    /\ price_confidence = 0
    /\ price_updater = NoAccount
    /\ threshold_price = 0
    /\ threshold_active = 0
    /\ threshold_setter = NoAccount
    /\ is_updater = [u \in Accounts |-> IF u = Creator THEN 1 ELSE 0]

\* StakingDapp.__init__: the reward parameters set at creation.
INITIAL_REWARD_AMOUNT == 5

INITIAL_REWARD_INTERVAL == 10

PRECISION_FACTOR == 1000000000

\* State after StakingDapp.initialize(): nothing staked, nobody opted in
\* with a position.
InitStaking ==
    /\ st_is_paused = 0
    /\ total_staked = 0
    /\ total_rewards_distributed = 0
    /\ reward_amount = INITIAL_REWARD_AMOUNT
    /\ reward_interval = INITIAL_REWARD_INTERVAL
    /\ staked_amount = [u \in Accounts |-> 0]
    /\ last_reward_time = [u \in Accounts |-> 0]
    /\ reward_balance = [u \in Accounts |-> 0]

\* YTAutoConverter.initialize line 70: the fee in basis points.
INITIAL_CONVERSION_FEE == 30

\* The application addresses passed to initialize at deployment.
DeployedAddresses == <<"oracle_app", "tokenization_app", "amm_app">>

\* State after YTAutoConverter.initialize(oracle, tokenization, amm): no user
\* has configured or deposited anything.
InitConverter ==
    /\ oracle_address = DeployedAddresses[1]
    /\ tokenization_address = DeployedAddresses[2]
    /\ amm_address = DeployedAddresses[3]
    /\ conversion_fee = INITIAL_CONVERSION_FEE
    /\ cv_is_paused = 0
    /\ total_conversions = 0
    /\ conversion_enabled = [u \in Accounts |-> 0]
    /\ cv_threshold_price = [u \in Accounts |-> 0]
    /\ conversion_executed = [u \in Accounts |-> 0]
    /\ cv_yt_balance = [u \in Accounts |-> 0]
    /\ cv_pt_balance = [u \in Accounts |-> 0]

InitAll ==
    /\ InitHost /\ InitSplitter /\ InitToken /\ InitAMM /\ InitOracle /\ InitStaking
    /\ InitConverter

\* _create_maturity_internal
CreateMaturityInternal(count) == count + 1

\* initialize: creator-only and callable again at any time.  It clears the
\* pause flag and restarts the maturity count at the one 30-day maturity it
\* creates; no balance is touched.
InitializeSplitter(u) ==
    LET err == IF u # Creator THEN "Only creator can initialize" ELSE ""
    IN  /\ IF err = ""
           THEN /\ sp_is_paused' = 0
                /\ maturity_count' = CreateMaturityInternal(0)
           ELSE UNCHANGED <<sp_is_paused, maturity_count>>
        /\ last' = Call("initialize", err, u, 0, 0, 0, 0)
        /\ UNCHANGED <<now, user_sy_balance, user_pt_balance, user_yt_balance,
                       pt_minted, yt_minted>>
        /\ UNCHANGED OtherThanSplitter

\* create_maturity
CreateMaturity(u, maturity_timestamp) ==
    LET err == IF u # Creator THEN "Only admin can create maturity"
               ELSE IF ~(maturity_timestamp > now) THEN "Maturity must be in future"
               ELSE IF sp_is_paused # 0 THEN "Protocol is paused"
               ELSE IF MaturityExists(maturity_timestamp) THEN "Maturity already exists"
               ELSE ""
    IN  /\ err = "" => CreateMaturityInternal(maturity_count) \in Counts
        /\ maturity_count' =
               IF err = "" THEN CreateMaturityInternal(maturity_count)
               ELSE maturity_count
        /\ last' = Call("create_maturity", err, u, 0, maturity_timestamp, 0, 0)
        /\ UNCHANGED <<now, sp_is_paused, user_sy_balance, user_pt_balance,
                       user_yt_balance, pt_minted, yt_minted>>
        /\ UNCHANGED OtherThanSplitter

\* split_tokens line 108: the SY debit.
SplitSyDebit(balance, amount) == balance - amount

\* split_tokens line 109: the PT credit.
SplitPtCredit(balance, amount) == balance + amount

\* split_tokens line 110: the YT credit.
SplitYtCreditDoubled(balance, amount) == balance + 2 * amount

SplitYtCredit(balance, amount) == balance + amount

\* split_tokens
SplitTokens(u, amount, maturity) ==
    LET err == IF sp_is_paused # 0 THEN "Protocol is paused"
               ELSE IF ~(amount > 0) THEN "Amount must be positive"
               ELSE IF ~MaturityExists(maturity) THEN "Maturity not found"
               ELSE IF ~(user_sy_balance[u] >= amount) THEN "Insufficient SY balance"
               ELSE ""
        sy == SplitSyDebit(user_sy_balance[u], amount)
        pt == SplitPtCredit(user_pt_balance[u], amount)
        yt == SplitYtCredit(user_yt_balance[u], amount)
    IN  /\ err = "" =>
               Total(user_yt_balance) - user_yt_balance[u] + yt <= MaxBalance
        /\ IF err = ""
           THEN /\ user_sy_balance' = [user_sy_balance EXCEPT ![u] = sy]
                /\ user_pt_balance' = [user_pt_balance EXCEPT ![u] = pt]
                /\ user_yt_balance' = [user_yt_balance EXCEPT ![u] = yt]
                /\ pt_minted' = pt_minted + (pt - user_pt_balance[u])
                /\ yt_minted' = yt_minted + (yt - user_yt_balance[u])
           ELSE UNCHANGED <<user_sy_balance, user_pt_balance, user_yt_balance,
                            pt_minted, yt_minted>>
        /\ last' = Call("split_tokens", err, u, amount, maturity, 0, 0)
        /\ UNCHANGED <<now, sp_is_paused, maturity_count>>
        /\ UNCHANGED OtherThanSplitter

\* redeem_tokens line 131: the PT debit.
RedeemPtDebit(balance, amount) == balance - amount

\* redeem_tokens line 132: the SY credit.
RedeemSyCreditDropped(balance, amount) == balance

RedeemSyCredit(balance, amount) == balance + amount

\* redeem_tokens lines 130-132 write the PT and the SY balance only: the YT
\* balance of the redeemer stays.
RedeemYtBalanceBurned(balance, amount) ==
    IF balance >= amount THEN balance - amount ELSE 0

RedeemYtBalance(balance, amount) == balance

\* redeem_tokens: the maturity it checks is the caller's argument.
RedeemTokens(u, amount, maturity) ==
    LET err == IF sp_is_paused # 0 THEN "Protocol is paused"
               ELSE IF ~(amount > 0) THEN "Amount must be positive"
               ELSE IF ~(now >= maturity) THEN "Maturity not reached"
               ELSE IF ~(user_pt_balance[u] >= amount) THEN "Insufficient PT balance"
               ELSE ""
    IN  /\ IF err = ""
           THEN /\ user_pt_balance' =
                       [user_pt_balance EXCEPT ![u] = RedeemPtDebit(@, amount)]
                /\ user_sy_balance' =
                       [user_sy_balance EXCEPT ![u] = RedeemSyCredit(@, amount)]
                /\ user_yt_balance' =
                       [user_yt_balance EXCEPT ![u] = RedeemYtBalance(@, amount)]
           ELSE UNCHANGED <<user_sy_balance, user_pt_balance, user_yt_balance>>
        /\ last' = Call("redeem_tokens", err, u, amount, maturity, 0, 0)
        /\ UNCHANGED <<now, sp_is_paused, maturity_count, pt_minted, yt_minted>>
        /\ UNCHANGED OtherThanSplitter

\* deposit_sy_tokens
DepositSyTokens(u, amount) ==
    LET err == IF ~(amount > 0) THEN "Amount must be positive" ELSE ""
    IN  /\ err = "" =>
               Total(user_sy_balance) + Total(user_pt_balance) + amount <= MaxBalance
        /\ user_sy_balance' =
               IF err = "" THEN [user_sy_balance EXCEPT ![u] = @ + amount]
               ELSE user_sy_balance
        /\ last' = Call("deposit_sy_tokens", err, u, amount, 0, 0, 0)
        /\ UNCHANGED <<now, sp_is_paused, maturity_count, user_pt_balance,
                       user_yt_balance, pt_minted, yt_minted>>
        /\ UNCHANGED OtherThanSplitter

\* pause_protocol
PauseProtocol(u) ==
    LET err == IF u # Creator THEN "Only admin can pause" ELSE ""
    IN  /\ sp_is_paused' = IF err = "" THEN 1 ELSE sp_is_paused
        /\ last' = Call("pause_protocol", err, u, 0, 0, 0, 0)
        /\ UNCHANGED <<now, maturity_count, user_sy_balance, user_pt_balance,
                       user_yt_balance, pt_minted, yt_minted>>
        /\ UNCHANGED OtherThanSplitter

\* unpause_protocol
UnpauseProtocol(u) ==
    LET err == IF u # Creator THEN "Only admin can unpause" ELSE ""
    IN  /\ sp_is_paused' = IF err = "" THEN 0 ELSE sp_is_paused
        /\ last' = Call("unpause_protocol", err, u, 0, 0, 0, 0)
        /\ UNCHANGED <<now, maturity_count, user_sy_balance, user_pt_balance,
                       user_yt_balance, pt_minted, yt_minted>>
        /\ UNCHANGED OtherThanSplitter

\* The host clock moves on between calls.
TickSplitter ==
    /\ \E t \in SplitterTimes : t > now /\ now' = t
    /\ last' = Tick
    /\ UNCHANGED splitterVars
    /\ UNCHANGED OtherThanSplitter

NextSplitter ==
    \/ \E u \in Accounts : InitializeSplitter(u)
    \/ \E u \in Accounts, m \in MaturityInputs : CreateMaturity(u, m)
    \/ \E u \in Accounts, a \in AmountInputs, m \in MaturityInputs : SplitTokens(u, a, m)
    \/ \E u \in Accounts, a \in AmountInputs, m \in MaturityInputs : RedeemTokens(u, a, m)
    \/ \E u \in Accounts, a \in AmountInputs : DepositSyTokens(u, a)
    \/ \E u \in Accounts : PauseProtocol(u)
    \/ \E u \in Accounts : UnpauseProtocol(u)
    \/ TickSplitter

SpecSplitter == InitAll /\ [][NextSplitter]_vars

Spec == SpecSplitter

\* ------------------------------------------------------------------------
\* Splitter claims
\* ------------------------------------------------------------------------
SyPlusPt == Total(user_sy_balance) + Total(user_pt_balance)

\* C1: every split_tokens or redeem_tokens call, committed or rejected, by
\* any account at any timestamp, leaves the sum over all accounts of
\* user_sy_balance + user_pt_balance unchanged.
C1_Conservation ==
    [][last'.op \in {"split_tokens", "redeem_tokens"} => SyPlusPt' = SyPlusPt]_vars

\* A redeem has committed after a split: value moved SY -> PT -> SY.
C1_Witness ==
    /\ Committed("redeem_tokens")
    /\ yt_minted > 0
    /\ \E u \in Accounts : user_sy_balance[u] > 0 /\ user_pt_balance[u] > 0

\* C2: a committed split_tokens(amount, maturity) lowers the caller's SY
\* balance by exactly amount, raises the caller's PT and YT balances by
\* exactly amount each and touches no other account, and at every point the
\* PT credited by all splits so far equals the YT credited by all splits.
C2_SplitLaw ==
    /\ [](pt_minted = yt_minted)
    /\ [][(last'.op = "split_tokens" /\ last'.err = "") =>
            LET u == last'.sender
                amount == last'.a1
            IN  /\ amount > 0
                /\ user_sy_balance' = [user_sy_balance EXCEPT ![u] = @ - amount]
                /\ user_pt_balance' = [user_pt_balance EXCEPT ![u] = @ + amount]
                /\ user_yt_balance' = [user_yt_balance EXCEPT ![u] = @ + amount]]_vars

\* Both accounts have split, the last of them more than one unit.
C2_Witness ==
    /\ Committed("split_tokens")
    /\ last.a1 = 2
    /\ \A u \in Accounts : user_yt_balance[u] > 0

\* C4: PT credited by split_tokens(amount, M) is not converted back into SY
\* before M.  Stated for a holder whose whole PT balance was credited by the
\* split just before: a redeem_tokens by that holder commits only at now >= M.
C4_NoRedeemBeforeMaturity ==
    [][(/\ Committed("split_tokens")
        /\ user_pt_balance[last.sender] = last.a1
        /\ last'.op = "redeem_tokens" /\ last'.err = ""
        /\ last'.sender = last.sender)
       => now' >= last.a2]_vars

\* The balances the Splitter keeps for each account.
SplitterBalances == <<user_sy_balance, user_pt_balance, user_yt_balance>>

\* C26: split_tokens(amount, maturity) commits only if the protocol is not
\* paused, amount > 0, the caller's SY balance >= amount and
\* now < maturity <= now + 365 days (and it does commit whenever all four
\* hold); a call with an expired maturity (maturity <= now) or one more than
\* a year ahead is rejected with all balances unchanged.  The last two
\* parts read: a step that is not a rejection without effect is not a
\* split_tokens call with such a maturity, and a step that is a rejection is
\* not a split_tokens call whose arguments meet all four conditions.
C26_SplitGating ==
    [][/\ (last'.op = "split_tokens" /\ last'.err = "") =>
              /\ sp_is_paused = 0
              /\ last'.a1 > 0
              /\ user_sy_balance[last'.sender] >= last'.a1
              /\ now < last'.a2
              /\ last'.a2 <= now + 365 * 24 * 60 * 60
       /\ last'.op = "split_tokens" =>
              LET u == last'.sender IN
              /\ \/ last'.err # "" /\ UNCHANGED SplitterBalances
                 \/ \A a \in AmountInputs, m \in MaturityInputs :
                        (m <= now \/ m > now + 365 * 24 * 60 * 60) =>
                            ~SplitTokens(u, a, m)
              /\ \/ last'.err = ""
                 \/ \A a \in AmountInputs, m \in MaturityInputs :
                        ( /\ sp_is_paused = 0
                          /\ a > 0
                          /\ user_sy_balance[u] >= a
                          /\ now < m
                          /\ m <= now + 365 * 24 * 60 * 60 ) =>
                            ~SplitTokens(u, a, m)]_vars

\* A split has been rejected for its maturity alone: the protocol is not
\* paused and the caller holds SY.
C26_Witness ==
    /\ last.op = "split_tokens"
    /\ last.err = "Maturity not found"
    /\ user_sy_balance[last.sender] > 0

\* A split has committed for the furthest maturity admitted, exactly one
\* year ahead.
C26_WitnessHorizon ==
    /\ Committed("split_tokens")
    /\ last.a2 = now + ONE_YEAR

\* C27: no Splitter operation lowers any account's user_yt_balance;
\* redeem_tokens leaves every user_yt_balance unchanged; and an account's SY
\* balance rises only by the amount argument of its own deposit_sy_tokens,
\* or of its own redeem_tokens together with an equal PT debit, whatever YT
\* the account holds.
C27_YtNotRedeemable ==
    [][/\ \A u \in Accounts : user_yt_balance'[u] >= user_yt_balance[u]
       /\ last'.op = "redeem_tokens" => UNCHANGED user_yt_balance
       /\ \A u \in Accounts :
              user_sy_balance'[u] > user_sy_balance[u] =>
                  /\ last'.err = ""
                  /\ last'.sender = u
                  /\ user_sy_balance'[u] = user_sy_balance[u] + last'.a1
                  /\ UNCHANGED user_yt_balance
                  /\ \/ /\ last'.op = "deposit_sy_tokens"
                        /\ UNCHANGED user_pt_balance
                     \/ /\ last'.op = "redeem_tokens"
                        /\ user_pt_balance'[u] = user_pt_balance[u] - last'.a1]_vars

\* A holder of YT has redeemed PT for SY and still holds the YT.
C27_Witness ==
    /\ Committed("redeem_tokens")
    /\ user_yt_balance[last.sender] >= last.a1
    /\ user_sy_balance[last.sender] >= last.a1

\* The maturities a run may have created by the time `now`: the 30-day
\* maturity of an initialize at some time up to now, and whatever
\* create_maturity can have accepted since T0.
PossiblyCreated(maturity_timestamp) ==
    \/ \E t \in SplitterTimes : t <= now /\ maturity_timestamp = t + THIRTY_DAYS
    \/ maturity_timestamp > T0 + ONE_YEAR

\* C40: right after the admin's create_maturity(t) has committed,
\* split_tokens(amount, t) by a caller holding at least amount > 0 of SY
\* commits while the protocol is unpaused; and create_maturity(t) is
\* rejected only when the sender is not the admin, t is not in the future,
\* the protocol is paused, or t was created before.
C40_CreatedIsSplittable ==
    [][/\ \A u \in Accounts, a \in AmountInputs :
              ( /\ Committed("create_maturity")
                /\ a > 0
                /\ user_sy_balance[u] >= a
                /\ sp_is_paused = 0
                /\ SplitTokens(u, a, last.a2) ) => last'.err = ""
       /\ \A u \in Accounts, m \in MaturityInputs :
              (CreateMaturity(u, m) /\ last'.err # "") =>
                  \/ u # Creator
                  \/ ~(m > now)
                  \/ sp_is_paused # 0
                  \/ PossiblyCreated(m)]_vars

\* create_maturity has just committed for a maturity that split_tokens,
\* which a funded caller could send now, does not find.
C40_CreatedButNotFound ==
    /\ Committed("create_maturity")
    /\ maturity_count = 2
    /\ sp_is_paused = 0
    /\ \E u \in Accounts : user_sy_balance[u] > 0
    /\ ~MaturityExists(last.a2)

\* ========================================================================
\* PTToken / YTToken (the Token Ledger).  YTToken's initialize, mint, burn,
\* transfer, approve, transfer_from and update_owner are the same statements
\* as PTToken's; the model follows pt_token/contract.py.
\* ========================================================================
\* mint: the `to` argument is not used, the sender is credited.
Mint(u, to, amount) ==
    LET err == IF u # tk_owner THEN "Only owner can mint"
               ELSE IF ~(amount > 0) THEN "Amount must be positive"
               ELSE ""
    IN  /\ err = "" => /\ tk_total_supply + amount <= MaxBalance
                       /\ tk_balance[u] + amount <= MaxBalance
        /\ IF err = ""
           THEN /\ tk_total_supply' = tk_total_supply + amount
                /\ tk_balance' = [tk_balance EXCEPT ![u] = @ + amount]
           ELSE UNCHANGED <<tk_total_supply, tk_balance>>
        /\ last' = Call("mint", err, u, amount, 0, 0, 0)
        /\ UNCHANGED <<now, tk_owner, tk_maturity, tk_allowance>>
        /\ UNCHANGED OtherThanToken

\* burn
Burn(u, amount) ==
    LET err == IF ~(amount > 0) THEN "Amount must be positive"
               ELSE IF ~(tk_balance[u] >= amount) THEN "Insufficient balance"
               ELSE IF ~(tk_total_supply >= amount) THEN "- would result negative"
               ELSE ""
    IN  /\ IF err = ""
           THEN /\ tk_balance' = [tk_balance EXCEPT ![u] = @ - amount]
                /\ tk_total_supply' = tk_total_supply - amount
           ELSE UNCHANGED <<tk_total_supply, tk_balance>>
        /\ last' = Call("burn", err, u, amount, 0, 0, 0)
        /\ UNCHANGED <<now, tk_owner, tk_maturity, tk_allowance>>
        /\ UNCHANGED OtherThanToken

\* transfer: debits the sender; the recipient `to` is never credited.
Transfer(u, to, amount) ==
    LET err == IF ~(amount > 0) THEN "Amount must be positive"
               ELSE IF ~(tk_balance[u] >= amount) THEN "Insufficient balance"
               ELSE ""
    IN  /\ tk_balance' =
               IF err = "" THEN [tk_balance EXCEPT ![u] = @ - amount]
               ELSE tk_balance
        /\ last' = Call("transfer", err, u, amount, 0, 0, 0)
        /\ UNCHANGED <<now, tk_owner, tk_maturity, tk_total_supply, tk_allowance>>
        /\ UNCHANGED OtherThanToken

\* approve: no assertion; the allowance is keyed by the sender alone.
Approve(u, spender, amount) ==
    /\ tk_allowance' = [tk_allowance EXCEPT ![u] = amount]
    /\ last' = Call("approve", "", u, amount, 0, 0, 0)
    /\ UNCHANGED <<now, tk_owner, tk_maturity, tk_total_supply, tk_balance>>
    /\ UNCHANGED OtherThanToken

\* transfer_from: checks and debits the sender's own allowance and balance;
\* `from_addr` and `to` are not used.
TransferFrom(u, from_addr, to, amount) ==
    LET err == IF ~(amount > 0) THEN "Amount must be positive"
               ELSE IF ~(tk_allowance[u] >= amount) THEN "Insufficient allowance"
               ELSE IF ~(tk_balance[u] >= amount) THEN "Insufficient balance"
               ELSE ""
    IN  /\ IF err = ""
           THEN /\ tk_balance' = [tk_balance EXCEPT ![u] = @ - amount]
                /\ tk_allowance' = [tk_allowance EXCEPT ![u] = @ - amount]
           ELSE UNCHANGED <<tk_balance, tk_allowance>>
        /\ last' = Call("transfer_from", err, u, amount, 0, 0, 0)
        /\ UNCHANGED <<now, tk_owner, tk_maturity, tk_total_supply>>
        /\ UNCHANGED OtherThanToken

\* update_owner
UpdateOwner(u, new_owner) ==
    LET err == IF u # tk_owner THEN "Only owner can update" ELSE ""
    IN  /\ tk_owner' = IF err = "" THEN new_owner ELSE tk_owner
        /\ last' = Call("update_owner", err, u, 0, 0, 0, 0)
        /\ UNCHANGED <<now, tk_maturity, tk_total_supply, tk_balance, tk_allowance>>
        /\ UNCHANGED OtherThanToken

\* Maturities offered to a repeated initialize: one not in the future, the
\* one the token was deployed with, and a later one.
TokenMaturityInputs == {T0, T0 + THIRTY_DAYS, T0 + THIRTY_DAYS + 1}

\* initialize: creator-only and callable again at any time.  It hands the
\* token back to the creator, stores the maturity passed in and zeroes
\* total_supply; balances and allowances are local state and stay.
InitializeToken(u, maturity_timestamp) ==
    LET err == IF u # Creator THEN "Only creator can initialize"
               ELSE IF ~(maturity_timestamp > now) THEN "Maturity must be in future"
               ELSE ""
    IN  /\ IF err = ""
           THEN /\ tk_owner' = u
                /\ tk_maturity' = maturity_timestamp
                /\ tk_total_supply' = 0
           ELSE UNCHANGED <<tk_owner, tk_maturity, tk_total_supply>>
        /\ last' = Call("initialize", err, u, 0, maturity_timestamp, 0, 0)
        /\ UNCHANGED <<now, tk_balance, tk_allowance>>
        /\ UNCHANGED OtherThanToken

\* is_mature (read-only)
IsMature == IF now >= tk_maturity THEN 1 ELSE 0

TickToken ==
    /\ \E t \in SplitterTimes : t > now /\ now' = t
    /\ last' = Tick
    /\ UNCHANGED tokenVars
    /\ UNCHANGED OtherThanToken

NextToken ==
    \/ \E u \in Accounts, to \in Accounts, a \in AmountInputs : Mint(u, to, a)
    \/ \E u \in Accounts, a \in AmountInputs : Burn(u, a)
    \/ \E u \in Accounts, to \in Accounts, a \in AmountInputs : Transfer(u, to, a)
    \/ \E u \in Accounts, sp \in Accounts, a \in AmountInputs : Approve(u, sp, a)
    \/ \E u \in Accounts, f \in Accounts, to \in Accounts, a \in AmountInputs :
           TransferFrom(u, f, to, a)
    \/ \E u \in Accounts, o \in Accounts : UpdateOwner(u, o)
    \/ TickToken

SpecToken == InitAll /\ [][NextToken]_vars

\* The ledger operations together with repeated initialize calls.
NextTokenLifecycle ==
    \/ NextToken
    \/ \E u \in Accounts, m \in TokenMaturityInputs : InitializeToken(u, m)

SpecTokenLifecycle == InitAll /\ [][NextTokenLifecycle]_vars

\* ------------------------------------------------------------------------
\* Token Ledger claims
\* ------------------------------------------------------------------------
\* C3: in every state reachable by mint, burn, transfer, approve and
\* transfer_from calls, the sum of all account balances equals total_supply.
C3_SupplyIsSumOfBalances == Total(tk_balance) = tk_total_supply

\* ========================================================================
\* SimpleAMM (the constant-product market)
\*
\* token_a_deposited and token_b_deposited are per-user statistics: written
\* by add_liquidity (lines 115-116) and remove_liquidity (lines 225-229,
\* which never underflows them) and read by get_user_liquidity alone.  They
\* feed no guard, reserve or share computation and are not part of the
\* state here.
\* ========================================================================
FEE_DENOMINATOR == 1000

\* Arguments of add_liquidity, of the swaps, of remove_liquidity and of
\* set_fee_rate.
LiquidityInputs == {0, 1, 2, 3}

SwapInputs == {0, 1, 2, 3}

FeeInputs == {0, 500, 999, 1000}

\* _sqrt: Newton's iteration from (x + 1) // 2, at most 10 rounds.
RECURSIVE SqrtLoop(_, _, _, _)
SqrtLoop(x, z, y, counter) ==
    IF y < z /\ counter < 10
    THEN SqrtLoop(x, y, ((x \div y) + y) \div 2, counter + 1)
    ELSE z

SqrtOneRound(x) == IF x = 0 THEN 0 ELSE (x + 1) \div 2

Sqrt(x) == IF x = 0 THEN 0 ELSE SqrtLoop(x, x, (x + 1) \div 2, 0)

\* The largest x up to which the ten rounds of _sqrt always reach
\* floor(sqrt(x)); at x + 1 = 176 * 178 they stop one above it.
ExactSqrtLimit == 31327

\* _get_amount_out: the fee is taken out of the input, then x * y = k.
GetAmountOutNoInputInDenominator(amount_in, reserve_in, reserve_out) ==
    LET amount_in_with_fee == amount_in * (FEE_DENOMINATOR - fee_rate)
        numerator == amount_in_with_fee * reserve_out
        denominator == reserve_in * FEE_DENOMINATOR
    IN  numerator \div denominator

GetAmountOutFeeNotTaken(amount_in, reserve_in, reserve_out) ==
    LET amount_in_with_fee == amount_in * FEE_DENOMINATOR
        numerator == amount_in_with_fee * reserve_out
        denominator == reserve_in * FEE_DENOMINATOR + amount_in_with_fee
    IN  numerator \div denominator

GetAmountOut(amount_in, reserve_in, reserve_out) ==
    LET amount_in_with_fee == amount_in * (FEE_DENOMINATOR - fee_rate)
        numerator == amount_in_with_fee * reserve_out
        denominator == reserve_in * FEE_DENOMINATOR + amount_in_with_fee
    IN  numerator \div denominator

\* add_liquidity lines 92-93: the paired amount each side requires.
RequiredBRoundedUp(amount_a) == (amount_a * reserve_b + reserve_a - 1) \div reserve_a

RequiredB(amount_a) == (amount_a * reserve_b) \div reserve_a

RequiredA(amount_b) == (amount_b * reserve_a) \div reserve_b

\* add_liquidity lines 79-112: what the call adds to each reserve and the
\* shares it mints, <<used_a, used_b, liquidity_tokens>>.
AddAmountsOnNewReserve(amount_a, amount_b) ==
    IF reserve_a = 0 /\ reserve_b = 0
    THEN <<amount_a, amount_b, Sqrt(amount_a * amount_b)>>
    ELSE IF RequiredB(amount_a) <= amount_b
    THEN <<amount_a, RequiredB(amount_a),
           (amount_a * total_liquidity) \div (reserve_a + amount_a)>>
    ELSE <<RequiredA(amount_b), amount_b,
           (amount_b * total_liquidity) \div (reserve_b + amount_b)>>

AddAmounts(amount_a, amount_b) ==
    IF reserve_a = 0 /\ reserve_b = 0
    THEN <<amount_a, amount_b, Sqrt(amount_a * amount_b)>>
    ELSE IF RequiredB(amount_a) <= amount_b
    THEN <<amount_a, RequiredB(amount_a),
           (amount_a * total_liquidity) \div reserve_a>>
    ELSE <<RequiredA(amount_b), amount_b,
           (amount_b * total_liquidity) \div reserve_b>>

\* add_liquidity lines 87 and 111: the first deposit overwrites the caller's
\* share balance, a later one adds to it.
SharesAfterAddOverwrite(balance, liquidity_tokens) == liquidity_tokens

SharesAfterAdd(balance, liquidity_tokens) ==
    IF reserve_a = 0 /\ reserve_b = 0 THEN liquidity_tokens
    ELSE balance + liquidity_tokens

\* add_liquidity.  h records <<used_a, used_b>> and the pool the deposit
\* went into, <<reserve_a, reserve_b, total_liquidity>> before the call.
AddLiquidityWithin(u, amount_a, amount_b, max_reserve, max_shares) ==
    LET err == IF amm_is_paused # 0 THEN "AMM is paused"
               ELSE IF ~(amount_a > 0 /\ amount_b > 0) THEN "Amounts must be positive"
               ELSE IF (reserve_a = 0) # (reserve_b = 0) THEN "/ 0"
               ELSE ""
        add == AddAmounts(amount_a, amount_b)
        first == reserve_a = 0 /\ reserve_b = 0
    IN  /\ err = "" => /\ reserve_a + add[1] <= max_reserve
                       /\ reserve_b + add[2] <= max_reserve
                       /\ (IF first THEN 0 ELSE total_liquidity) + add[3] <= max_shares
                       /\ SharesAfterAdd(liquidity_balance[u], add[3]) <= max_shares
        /\ IF err = ""
           THEN /\ reserve_a' = reserve_a + add[1]
                /\ reserve_b' = reserve_b + add[2]
                /\ liquidity_balance' =
                       [liquidity_balance EXCEPT ![u] = SharesAfterAdd(@, add[3])]
                /\ total_liquidity' =
                       IF first THEN add[3] ELSE total_liquidity + add[3]
           ELSE UNCHANGED <<reserve_a, reserve_b, liquidity_balance, total_liquidity>>
        /\ last' = CallH("add_liquidity", err, u, amount_a, amount_b, add[3], 0,
                         <<add[1], add[2], reserve_a, reserve_b, total_liquidity>>)
        /\ UNCHANGED <<now, fee_rate, amm_is_paused>>
        /\ UNCHANGED OtherThanAMM

AddLiquidity(u, amount_a, amount_b) ==
    AddLiquidityWithin(u, amount_a, amount_b, MaxReserve, MaxShares)

\* remove_liquidity lines 215-216: the proportional amounts, floor-divided.
RemoveAmountRoundedUp(liquidity_amount, reserve) ==
    (liquidity_amount * reserve + total_liquidity - 1) \div total_liquidity

RemoveAmountWholeReserve(liquidity_amount, reserve) == reserve

RemoveAmount(liquidity_amount, reserve) ==
    (liquidity_amount * reserve) \div total_liquidity

\* remove_liquidity.  h records a round trip: the call follows at once a
\* committed add_liquidity of the same sender and removes exactly the
\* shares that call minted; it then carries that call's
\* <<amount_a, amount_b, used_a, used_b>>.
RemoveLiquidity(u, liquidity_amount) ==
    LET err == IF amm_is_paused # 0 THEN "AMM is paused"
               ELSE IF ~(liquidity_amount > 0) THEN "Amount must be positive"
               ELSE IF ~(liquidity_balance[u] >= liquidity_amount)
                    THEN "Insufficient liquidity balance"
               ELSE IF total_liquidity = 0 THEN "/ 0"
               ELSE IF \/ RemoveAmount(liquidity_amount, reserve_a) > reserve_a
                       \/ RemoveAmount(liquidity_amount, reserve_b) > reserve_b
                       \/ liquidity_amount > total_liquidity
                    THEN "- would result negative"
               ELSE ""
        amount_a == RemoveAmount(liquidity_amount, reserve_a)
        amount_b == RemoveAmount(liquidity_amount, reserve_b)
        round_trip == /\ Committed("add_liquidity")
                      /\ last.sender = u
                      /\ last.r1 = liquidity_amount
    IN  /\ IF err = ""
           THEN /\ reserve_a' = reserve_a - amount_a
                /\ reserve_b' = reserve_b - amount_b
                /\ liquidity_balance' =
                       [liquidity_balance EXCEPT ![u] = @ - liquidity_amount]
                /\ total_liquidity' = total_liquidity - liquidity_amount
           ELSE UNCHANGED <<reserve_a, reserve_b, liquidity_balance, total_liquidity>>
        /\ last' = CallH("remove_liquidity", err, u, liquidity_amount, 0,
                         amount_a, amount_b,
                         IF round_trip
                         THEN <<last.a1, last.a2, last.h[1], last.h[2]>>
                         ELSE <<>>)
        /\ UNCHANGED <<now, fee_rate, amm_is_paused>>
        /\ UNCHANGED OtherThanAMM

\* swap_a_for_b
SwapAForB(u, amount_in) ==
    LET err == IF amm_is_paused # 0 THEN "AMM is paused"
               ELSE IF ~(amount_in > 0) THEN "Amount must be positive"
               ELSE IF ~(reserve_a > 0 /\ reserve_b > 0) THEN "Insufficient liquidity"
               ELSE IF ~(GetAmountOut(amount_in, reserve_a, reserve_b) > 0)
                    THEN "Insufficient output amount"
               ELSE IF ~(GetAmountOut(amount_in, reserve_a, reserve_b) <= reserve_b)
                    THEN "Insufficient liquidity"
               ELSE ""
        amount_out == GetAmountOut(amount_in, reserve_a, reserve_b)
    IN  /\ err = "" => reserve_a + amount_in <= MaxReserve
        /\ IF err = ""
           THEN /\ reserve_a' = reserve_a + amount_in
                /\ reserve_b' = reserve_b - amount_out
           ELSE UNCHANGED <<reserve_a, reserve_b>>
        /\ last' = Call("swap_a_for_b", err, u, amount_in, 0, amount_out, 0)
        /\ UNCHANGED <<now, fee_rate, amm_is_paused, total_liquidity, liquidity_balance>>
        /\ UNCHANGED OtherThanAMM

\* swap_b_for_a
SwapBForA(u, amount_in) ==
    LET err == IF amm_is_paused # 0 THEN "AMM is paused"
               ELSE IF ~(amount_in > 0) THEN "Amount must be positive"
               ELSE IF ~(reserve_a > 0 /\ reserve_b > 0) THEN "Insufficient liquidity"
               ELSE IF ~(GetAmountOut(amount_in, reserve_b, reserve_a) > 0)
                    THEN "Insufficient output amount"
               ELSE IF ~(GetAmountOut(amount_in, reserve_b, reserve_a) <= reserve_a)
                    THEN "Insufficient liquidity"
               ELSE ""
        amount_out == GetAmountOut(amount_in, reserve_b, reserve_a)
    IN  /\ err = "" => reserve_b + amount_in <= MaxReserve
        /\ IF err = ""
           THEN /\ reserve_b' = reserve_b + amount_in
                /\ reserve_a' = reserve_a - amount_out
           ELSE UNCHANGED <<reserve_a, reserve_b>>
        /\ last' = Call("swap_b_for_a", err, u, amount_in, 0, amount_out, 0)
        /\ UNCHANGED <<now, fee_rate, amm_is_paused, total_liquidity, liquidity_balance>>
        /\ UNCHANGED OtherThanAMM

\* set_fee_rate
SetFeeRate(u, new_fee) ==
    LET err == IF u # Creator THEN "Only admin can set fee"
               ELSE IF ~(new_fee < FEE_DENOMINATOR) THEN "Fee too high"
               ELSE ""
    IN  /\ fee_rate' = IF err = "" THEN new_fee ELSE fee_rate
        /\ last' = Call("set_fee_rate", err, u, new_fee, 0, 0, 0)
        /\ UNCHANGED <<now, reserve_a, reserve_b, amm_is_paused, total_liquidity,
                       liquidity_balance>>
        /\ UNCHANGED OtherThanAMM

\* pause_amm
PauseAmm(u) ==
    LET err == IF u # Creator THEN "Only admin can pause" ELSE ""
    IN  /\ amm_is_paused' = IF err = "" THEN 1 ELSE amm_is_paused
        /\ last' = Call("pause_amm", err, u, 0, 0, 0, 0)
        /\ UNCHANGED <<now, reserve_a, reserve_b, fee_rate, total_liquidity,
                       liquidity_balance>>
        /\ UNCHANGED OtherThanAMM

\* unpause_amm
UnpauseAmm(u) ==
    LET err == IF u # Creator THEN "Only admin can unpause" ELSE ""
    IN  /\ amm_is_paused' = IF err = "" THEN 0 ELSE amm_is_paused
        /\ last' = Call("unpause_amm", err, u, 0, 0, 0, 0)
        /\ UNCHANGED <<now, reserve_a, reserve_b, fee_rate, total_liquidity,
                       liquidity_balance>>
        /\ UNCHANGED OtherThanAMM

\* initialize: creator-only and callable again at any time.  It empties the
\* reserves and total_liquidity and restores the 0.3% fee; liquidity_balance
\* is local state and stays.
InitializeAMM(u) ==
    LET err == IF u # Creator THEN "Only creator can initialize" ELSE ""
    IN  /\ IF err = ""
           THEN /\ reserve_a' = 0
                /\ reserve_b' = 0
                /\ fee_rate' = 3
                /\ amm_is_paused' = 0
                /\ total_liquidity' = 0
           ELSE UNCHANGED <<reserve_a, reserve_b, fee_rate, amm_is_paused,
                            total_liquidity>>
        /\ last' = Call("initialize", err, u, 0, 0, 0, 0)
        /\ UNCHANGED <<now, liquidity_balance>>
        /\ UNCHANGED OtherThanAMM

NextAMM ==
    \/ \E u \in Accounts, a \in LiquidityInputs, b \in LiquidityInputs : AddLiquidity(u, a, b)
    \/ \E u \in Accounts, l \in LiquidityInputs : RemoveLiquidity(u, l)
    \/ \E u \in Accounts, a \in SwapInputs : SwapAForB(u, a)
    \/ \E u \in Accounts, a \in SwapInputs : SwapBForA(u, a)
    \/ \E u \in Accounts, f \in FeeInputs : SetFeeRate(u, f)
    \/ \E u \in Accounts : PauseAmm(u)
    \/ \E u \in Accounts : UnpauseAmm(u)

SpecAMM == InitAll /\ [][NextAMM]_vars

\* Deposits <<amount_a, amount_b>> of a size at which _sqrt runs out of
\* rounds: amounts around 177, whose products lie on both sides of
\* ExactSqrtLimit, and pairs with a zero side or at a lopsided ratio.
FirstDepositInputs ==
    ((174 .. 178) \X (174 .. 178))
        \cup {<<0, 176>>, <<176, 0>>, <<1, 178>>, <<178, 1>>}

MaxFirstReserve == 178

\* A pool that receives a deposit of these sizes whenever it is empty and
\* is emptied again by its provider withdrawing all they hold.
NextFirstDeposit ==
    \/ \E u \in Accounts, d \in FirstDepositInputs :
           /\ reserve_a = 0 /\ reserve_b = 0
           /\ AddLiquidityWithin(u, d[1], d[2], MaxFirstReserve, MaxFirstReserve)
    \/ \E u \in Accounts : RemoveLiquidity(u, liquidity_balance[u])

SpecFirstDeposit == InitAll /\ [][NextFirstDeposit]_vars

\* The market operations together with repeated initialize calls.
NextAMMLifecycle ==
    \/ NextAMM
    \/ \E u \in Accounts : InitializeAMM(u)

SpecAMMLifecycle == InitAll /\ [][NextAMMLifecycle]_vars

\* ------------------------------------------------------------------------
\* AMM claims
\* ------------------------------------------------------------------------
SwapCommitted(l) == l.op \in {"swap_a_for_b", "swap_b_for_a"} /\ l.err = ""

\* C5: every committed swap_a_for_b or swap_b_for_a, at any fee_rate the
\* contract accepts, leaves reserve_a * reserve_b at least as large as it
\* was before the swap.
C5_ProductNonDecreasing ==
    [][SwapCommitted(last') =>
           reserve_a' * reserve_b' >= reserve_a * reserve_b]_vars

\* A swap has committed at fee_rate 0.
C5_Witness == SwapCommitted(last) /\ fee_rate = 0 /\ last.r1 > 0

\* C6: every swap committed while fee_rate > 0 makes reserve_a * reserve_b
\* strictly larger.
C6_ProductStrictlyIncreasing ==
    [][(SwapCommitted(last') /\ fee_rate > 0) =>
           reserve_a' * reserve_b' > reserve_a * reserve_b]_vars

\* A swap has committed at a positive fee_rate.
C6_Witness == SwapCommitted(last) /\ fee_rate > 0 /\ last.r1 > 0

\* C7: in every state reachable by add_liquidity, remove_liquidity and
\* swaps, the liquidity_balance of all accounts sums to total_liquidity.
C7_SharesSumToTotal == Total(liquidity_balance) = total_liquidity

\* The first-deposit branch has just been taken by an account other than
\* the creator, and its shares are all the shares there are.
C7_Witness ==
    /\ Committed("add_liquidity")
    /\ last.h[3] = 0 /\ last.h[4] = 0
    /\ last.sender # Creator
    /\ liquidity_balance[last.sender] = last.r1
    /\ total_liquidity = last.r1

\* C8: removing, right after a committed add_liquidity(a, b), exactly the
\* shares that call minted returns a_out <= a and b_out <= b.
C8_RoundTripNeverProfits ==
    (Committed("remove_liquidity") /\ last.h # <<>>) =>
        /\ last.r1 <= last.h[1]
        /\ last.r2 <= last.h[2]

\* A round trip into a pool that already held liquidity has been made, and
\* it returned less than was put in.
C8_Witness ==
    /\ Committed("remove_liquidity")
    /\ last.h # <<>>
    /\ total_liquidity > 0
    /\ last.r1 < last.h[1]

\* What removing the shares just minted would return, and what the deposit
\* put into the reserves.
RoundTripOutA == RemoveAmount(last.r1, reserve_a)

RoundTripOutB == RemoveAmount(last.r1, reserve_b)

CeilDiv(x, y) == (x + y - 1) \div y

C33_SubsequentDeposit ==
    [][(last'.op = "add_liquidity" /\ last'.err = "" /\ reserve_a > 0 /\ reserve_b > 0) =>
          LET a == last'.a1
              b == last'.a2
              added_a == reserve_a' - reserve_a
              added_b == reserve_b' - reserve_b
              minted == total_liquidity' - total_liquidity
              paired_b == (a * reserve_b) \div reserve_a
              paired_a == (b * reserve_a) \div reserve_b
          IN  /\ added_a <= a
              /\ added_b <= b
              /\ IF paired_b <= b
                 THEN /\ added_a = a
                      /\ added_b = paired_b
                      /\ minted = (a * total_liquidity) \div reserve_a
                 ELSE /\ added_a = paired_a
                      /\ added_b = b
                      /\ minted = (b * total_liquidity) \div reserve_b
              /\ liquidity_balance' =
                     [liquidity_balance EXCEPT ![last'.sender] = @ + minted]]_vars

\* A deposit into a pool with positive reserves that takes amount_b in full
\* and less than amount_a.
C33_Witness ==
    /\ Committed("add_liquidity")
    /\ last.h[3] > 0 /\ last.h[4] > 0
    /\ last.h[2] = last.a2
    /\ last.h[1] < last.a1
    /\ last.r1 > 0

\* A deposit into a pool with positive reserves that takes amount_a in full
\* and less than amount_b.
C33_WitnessSideA ==
    /\ Committed("add_liquidity")
    /\ last.h[3] > 0 /\ last.h[4] > 0
    /\ last.h[1] = last.a1
    /\ last.h[2] < last.a2
    /\ last.r1 > 0

\* C34: every committed add_liquidity that raises a reserve raises the
\* caller's liquidity_balance by at least one share.
C34_NoUnbackedDeposit ==
    [][(last'.op = "add_liquidity" /\ last'.err = ""
          /\ (reserve_a' > reserve_a \/ reserve_b' > reserve_b)) =>
          liquidity_balance'[last'.sender] >= liquidity_balance[last'.sender] + 1]_vars

\* A committed deposit that put tokens into the pool and minted no share.
C34_DepositForNothing ==
    /\ Committed("add_liquidity")
    /\ last.h[1] + last.h[2] > 0
    /\ last.r1 = 0
    /\ reserve_a = last.h[3] + last.h[1]
    /\ reserve_b = last.h[4] + last.h[2]
    /\ total_liquidity = last.h[5]

\* C35: a committed add_liquidity lowers for no other account H holding
\* s > 0 shares what remove_liquidity(s) would pay H on either side:
\* neither floor(s * reserve_a / total_liquidity) nor
\* floor(s * reserve_b / total_liquidity) decreases.
C35_NoDilution ==
    [][(last'.op = "add_liquidity" /\ last'.err = "") =>
          \A H \in Accounts \ {last'.sender} :
              liquidity_balance[H] > 0 =>
                  /\ liquidity_balance'[H] = liquidity_balance[H]
                  /\ (liquidity_balance[H] * reserve_a') \div total_liquidity'
                         >= (liquidity_balance[H] * reserve_a) \div total_liquidity
                  /\ (liquidity_balance[H] * reserve_b') \div total_liquidity'
                         >= (liquidity_balance[H] * reserve_b) \div total_liquidity]_vars

\* After a committed deposit into a pool with shares outstanding, another
\* account's shares pay less of token A than they did before the deposit.
C35_HolderDiluted ==
    /\ Committed("add_liquidity")
    /\ last.h[5] > 0
    /\ last.r1 > 0
    /\ \E H \in Accounts \ {last.sender} :
           /\ liquidity_balance[H] > 0
           /\ (liquidity_balance[H] * reserve_a) \div total_liquidity
                  < (liquidity_balance[H] * last.h[3]) \div last.h[5]

\* C36: in every state reached by add_liquidity, remove_liquidity and
\* swaps after the one initialize, reserve_a = 0 exactly when reserve_b = 0
\* exactly when total_liquidity = 0.
C36_PoolEmptiness ==
    /\ (reserve_a = 0) <=> (reserve_b = 0)
    /\ (reserve_b = 0) <=> (total_liquidity = 0)

\* A partial withdrawal has just left shares outstanding over two reserves
\* of which one is down to a single unit.
C36_Witness ==
    /\ Committed("remove_liquidity")
    /\ total_liquidity > 0
    /\ reserve_a = 1
    /\ reserve_b > 1
    /\ C36_PoolEmptiness

\* A swap has just left a single unit in the reserve it paid from.
C36_WitnessSwap ==
    /\ Committed("swap_a_for_b")
    /\ reserve_b = 1
    /\ total_liquidity > 0

\* The last shares have just been withdrawn and the pool is empty again.
C36_WitnessEmptied ==
    /\ Committed("remove_liquidity")
    /\ last.r1 > 0
    /\ total_liquidity = 0 /\ reserve_a = 0 /\ reserve_b = 0

\* ========================================================================
\* PriceOracle
\* ========================================================================
MAX_PRICE_DEVIATION == 1000

MIN_UPDATE_INTERVAL == 300

STALENESS_THRESHOLD == 3600

\* The timestamps the host clock takes in the Oracle runs: both sides of the
\* update interval and of the staleness threshold, counted from T0 and from
\* an update made at T0 + 300.
OracleTimes ==
    {T0 + d : d \in {0, MIN_UPDATE_INTERVAL - 1, MIN_UPDATE_INTERVAL,
                     STALENESS_THRESHOLD, STALENESS_THRESHOLD + 1,
                     MIN_UPDATE_INTERVAL + STALENESS_THRESHOLD,
                     MIN_UPDATE_INTERVAL + STALENESS_THRESHOLD + 1}}

\* Arguments of update_price and set_threshold.
PriceInputs == {0, 90, 100, 110, 111}

ConfidenceInputs == {10000, 10001}

ThresholdInputs == {0, 100}

\* _calculate_deviation: |new - old| * 10000 // old, in basis points.
CalculateDeviation(old_price, new_price) ==
    IF old_price = 0 THEN 0
    ELSE IF old_price > new_price
    THEN ((old_price - new_price) * 10000) \div old_price
    ELSE ((new_price - old_price) * 10000) \div old_price

\* The authorization test of update_price and set_threshold.
IsAuthorizedAnyone(u) == TRUE

IsAuthorized(u) == u = Creator \/ is_updater[u] = 1

\* initialize, called again by the creator: every field it assigns goes
\* back to its initial value; price_updater and threshold_setter are kept.
InitializeOracle(u) ==
    LET err == IF u # Creator THEN "Only creator can initialize" ELSE ""
    IN  /\ IF err = ""
           THEN /\ circuit_breaker_active' = 0
                /\ or_is_paused' = 0
                /\ updater_count' = 1
                /\ token_price' = 0
                /\ price_timestamp' = 0
                /\ price_confidence' = 0
                /\ threshold_price' = 0
                /\ threshold_active' = 0
                /\ is_updater' = [is_updater EXCEPT ![u] = 1]
           ELSE UNCHANGED <<circuit_breaker_active, or_is_paused, updater_count,
                            token_price, price_timestamp, price_confidence,
                            threshold_price, threshold_active, is_updater>>
        /\ last' = Call("initialize", err, u, 0, 0, 0, 0)
        /\ UNCHANGED <<now, price_updater, threshold_setter>>
        /\ UNCHANGED OtherThanOracle

\* add_price_updater: counts the updater, registers nobody.
AddPriceUpdater(u, updater) ==
    LET err == IF u # Creator THEN "Only admin can add updaters" ELSE ""
    IN  /\ err = "" => updater_count + 1 \in Counts
        /\ updater_count' = IF err = "" THEN updater_count + 1 ELSE updater_count
        /\ last' = Call("add_price_updater", err, u, 0, 0, 0, 0)
        /\ UNCHANGED <<now, circuit_breaker_active, or_is_paused, token_price,
                       price_timestamp, price_confidence, price_updater,
                       threshold_price, threshold_active, threshold_setter, is_updater>>
        /\ UNCHANGED OtherThanOracle

\* update_price lines 117-119: the minimum interval since the stored price.
IntervalElapsedStrictly == now > price_timestamp + MIN_UPDATE_INTERVAL

IntervalElapsed == now >= price_timestamp + MIN_UPDATE_INTERVAL

\* update_price lines 122-123: the deviation from the stored price is in bound.
DeviationOnNewPrice(new_price) ==
    CalculateDeviation(new_price, token_price) <= MAX_PRICE_DEVIATION

DeviationWithinBound(new_price) ==
    CalculateDeviation(token_price, new_price) <= MAX_PRICE_DEVIATION

\* update_price line 102: the circuit breaker blocks the update.
BreakerBlocksNever == FALSE

BreakerBlocks == circuit_breaker_active # 0

\* update_price.  _check_threshold_internal only logs.
UpdatePrice(u, new_price, confidence) ==
    LET err == IF or_is_paused # 0 THEN "Oracle is paused"
               ELSE IF BreakerBlocks THEN "Circuit breaker active"
               ELSE IF ~(new_price > 0) THEN "Price must be positive"
               ELSE IF ~(confidence <= 10000) THEN "Confidence cannot exceed 100%"
               ELSE IF ~IsAuthorized(u) THEN "Not authorized to update price"
               ELSE IF token_price > 0
                       /\ ~IntervalElapsed
                    THEN "Update too frequent"
               ELSE IF token_price > 0
                       /\ ~DeviationWithinBound(new_price)
                    THEN "Price deviation too large"
               ELSE ""
    IN  /\ IF err = ""
           THEN /\ token_price' = new_price
                /\ price_timestamp' = now
                /\ price_confidence' = confidence
                /\ price_updater' = u
           ELSE UNCHANGED <<token_price, price_timestamp, price_confidence,
                            price_updater>>
        /\ last' = Call("update_price", err, u, new_price, confidence, token_price, 0)
        /\ UNCHANGED <<now, circuit_breaker_active, or_is_paused, updater_count,
                       threshold_price, threshold_active, threshold_setter, is_updater>>
        /\ UNCHANGED OtherThanOracle

\* set_threshold
SetThreshold(u, threshold) ==
    LET err == IF ~(threshold > 0) THEN "Threshold must be positive"
               ELSE IF ~IsAuthorized(u) THEN "Not authorized to set threshold"
               ELSE ""
    IN  /\ IF err = ""
           THEN /\ threshold_price' = threshold
                /\ threshold_active' = 1
                /\ threshold_setter' = u
           ELSE UNCHANGED <<threshold_price, threshold_active, threshold_setter>>
        /\ last' = Call("set_threshold", err, u, threshold, 0, 0, 0)
        /\ UNCHANGED <<now, circuit_breaker_active, or_is_paused, updater_count,
                       token_price, price_timestamp, price_confidence, price_updater,
                       is_updater>>
        /\ UNCHANGED OtherThanOracle

\* remove_threshold
RemoveThreshold(u) ==
    LET err == IF u # Creator THEN "Only admin can remove threshold" ELSE ""
    IN  /\ IF err = ""
           THEN /\ threshold_active' = 0
                /\ threshold_price' = 0
           ELSE UNCHANGED <<threshold_price, threshold_active>>
        /\ last' = Call("remove_threshold", err, u, 0, 0, 0, 0)
        /\ UNCHANGED <<now, circuit_breaker_active, or_is_paused, updater_count,
                       token_price, price_timestamp, price_confidence, price_updater,
                       threshold_setter, is_updater>>
        /\ UNCHANGED OtherThanOracle

\* get_price lines 161-163: the price is no older than the threshold.
PriceIsFreshStrictly == now < price_timestamp + STALENESS_THRESHOLD

PriceIsFresh == now <= price_timestamp + STALENESS_THRESHOLD

\* get_price (read-only): r1 is the price returned.
GetPrice(u) ==
    LET err == IF ~(token_price > 0) THEN "No price available"
               ELSE IF ~PriceIsFresh THEN "Price is stale"
               ELSE ""
    IN  /\ last' = Call("get_price", err, u, 0, 0, token_price, 0)
        /\ UNCHANGED <<now, oracleVars>>
        /\ UNCHANGED OtherThanOracle

\* is_price_stale (read-only)
IsPriceStaleIgnoringAge == IF price_timestamp = 0 THEN 1 ELSE 0

IsPriceStale ==
    IF price_timestamp = 0 THEN 1
    ELSE IF now > price_timestamp + STALENESS_THRESHOLD THEN 1
    ELSE 0

\* threshold_reached (read-only)
ThresholdReached ==
    IF threshold_active = 0 THEN 0
    ELSE IF token_price = 0 THEN 0
    ELSE IF IsPriceStale = 1 THEN 0
    ELSE IF token_price >= threshold_price THEN 1
    ELSE 0

\* activate_circuit_breaker
ActivateCircuitBreaker(u) ==
    LET err == IF u # Creator THEN "Only admin can activate circuit breaker" ELSE ""
    IN  /\ circuit_breaker_active' = IF err = "" THEN 1 ELSE circuit_breaker_active
        /\ last' = Call("activate_circuit_breaker", err, u, 0, 0, 0, 0)
        /\ UNCHANGED <<now, or_is_paused, updater_count, token_price, price_timestamp,
                       price_confidence, price_updater, threshold_price,
                       threshold_active, threshold_setter, is_updater>>
        /\ UNCHANGED OtherThanOracle

\* reset_circuit_breaker
ResetCircuitBreaker(u) ==
    LET err == IF u # Creator THEN "Only admin can reset circuit breaker" ELSE ""
    IN  /\ circuit_breaker_active' = IF err = "" THEN 0 ELSE circuit_breaker_active
        /\ last' = Call("reset_circuit_breaker", err, u, 0, 0, 0, 0)
        /\ UNCHANGED <<now, or_is_paused, updater_count, token_price, price_timestamp,
                       price_confidence, price_updater, threshold_price,
                       threshold_active, threshold_setter, is_updater>>
        /\ UNCHANGED OtherThanOracle

\* pause_oracle
PauseOracle(u) ==
    LET err == IF u # Creator THEN "Only admin can pause" ELSE ""
    IN  /\ or_is_paused' = IF err = "" THEN 1 ELSE or_is_paused
        /\ last' = Call("pause_oracle", err, u, 0, 0, 0, 0)
        /\ UNCHANGED <<now, circuit_breaker_active, updater_count, token_price,
                       price_timestamp, price_confidence, price_updater,
                       threshold_price, threshold_active, threshold_setter, is_updater>>
        /\ UNCHANGED OtherThanOracle

\* unpause_oracle
UnpauseOracle(u) ==
    LET err == IF u # Creator THEN "Only admin can unpause" ELSE ""
    IN  /\ or_is_paused' = IF err = "" THEN 0 ELSE or_is_paused
        /\ last' = Call("unpause_oracle", err, u, 0, 0, 0, 0)
        /\ UNCHANGED <<now, circuit_breaker_active, updater_count, token_price,
                       price_timestamp, price_confidence, price_updater,
                       threshold_price, threshold_active, threshold_setter, is_updater>>
        /\ UNCHANGED OtherThanOracle

TickOracle ==
    /\ \E t \in OracleTimes : t > now /\ now' = t
    /\ last' = Tick
    /\ UNCHANGED oracleVars
    /\ UNCHANGED OtherThanOracle

NextOracle ==
    \/ \E u \in Accounts : InitializeOracle(u)
    \/ \E u \in Accounts, w \in Accounts : AddPriceUpdater(u, w)
    \/ \E u \in Accounts, p \in PriceInputs, c \in ConfidenceInputs : UpdatePrice(u, p, c)
    \/ \E u \in Accounts, t \in ThresholdInputs : SetThreshold(u, t)
    \/ \E u \in Accounts : RemoveThreshold(u)
    \/ \E u \in Accounts : GetPrice(u)
    \/ \E u \in Accounts : ActivateCircuitBreaker(u)
    \/ \E u \in Accounts : ResetCircuitBreaker(u)
    \/ \E u \in Accounts : PauseOracle(u)
    \/ \E u \in Accounts : UnpauseOracle(u)
    \/ TickOracle

SpecOracle == InitAll /\ [][NextOracle]_vars

\* ------------------------------------------------------------------------
\* Oracle claims
\* ------------------------------------------------------------------------
\* C10: with a price set at price_timestamp, a get_price call at `now`
\* fails ("Price is stale") whenever now > price_timestamp + 3600 and
\* commits, returning the stored price, whenever
\* price_timestamp <= now <= price_timestamp + 3600.
C10_StalenessBoundary ==
    (last.op = "get_price" /\ token_price > 0) =>
        /\ now > price_timestamp + STALENESS_THRESHOLD => last.err = "Price is stale"
        /\ (price_timestamp <= now /\ now <= price_timestamp + STALENESS_THRESHOLD) =>
               (last.err = "" /\ last.r1 = token_price)
        /\ price_timestamp <= now

\* get_price has committed exactly at the staleness threshold.
C10_Witness ==
    /\ Committed("get_price")
    /\ now = price_timestamp + STALENESS_THRESHOLD
    /\ last.r1 = token_price

\* get_price has been rejected one second past the threshold.
C10_WitnessStale ==
    /\ last.op = "get_price" /\ last.err = "Price is stale"
    /\ now = price_timestamp + STALENESS_THRESHOLD + 1

\* C37: threshold_reached() = 1 only when threshold_active = 1, a price is
\* present and not stale, so that get_price commits and returns it, and the
\* price is at or above threshold_price; is_price_stale() = 0 exactly when
\* price_timestamp is set and now <= price_timestamp + 3600.
C37_ReadConsistency ==
    /\ ThresholdReached \in {0, 1}
    /\ IsPriceStale \in {0, 1}
    /\ ThresholdReached = 1 =>
           /\ threshold_active = 1
           /\ token_price > 0
           /\ now <= price_timestamp + STALENESS_THRESHOLD
           /\ token_price >= threshold_price
           /\ last.op = "get_price" => (last.err = "" /\ last.r1 >= threshold_price)
    /\ IsPriceStale = 0 <=>
           (price_timestamp # 0 /\ now <= price_timestamp + STALENESS_THRESHOLD)

\* get_price has committed on the last second of freshness with the
\* threshold reached.
C37_Witness ==
    /\ Committed("get_price")
    /\ ThresholdReached = 1
    /\ IsPriceStale = 0
    /\ now = price_timestamp + STALENESS_THRESHOLD
    /\ threshold_price > 0

\* One second later the threshold is active and the price above it, and
\* neither read reports it.
C37_WitnessStale ==
    /\ last.op = "get_price" /\ last.err = "Price is stale"
    /\ threshold_active = 1
    /\ token_price >= threshold_price
    /\ ThresholdReached = 0
    /\ IsPriceStale = 1

\* The preconditions of update_price other than the interval and deviation
\* gates: not paused, breaker off, positive price, confidence in range,
\* authorized sender.
UpdateAdmissible(u, new_price, confidence) ==
    /\ or_is_paused = 0
    /\ circuit_breaker_active = 0
    /\ new_price > 0
    /\ confidence <= 10000
    /\ IsAuthorized(u)

\* The step is the call update_price(new_price, confidence) by u (the record
\* of the call is compared first, the whole handler after).
UpdatePriceStep(u, new_price, confidence) ==
    /\ last'.op = "update_price"
    /\ last'.sender = u
    /\ last'.err = "" => (last'.a1 = new_price /\ last'.a2 = confidence)
    /\ UpdatePrice(u, new_price, confidence)

\* C11: once a price is stored (a successful update_price at
\* t0 = price_timestamp), an update_price at now < t0 + 300 is rejected and
\* leaves price and timestamp as they were; an admissible update at
\* now >= t0 + 300 whose deviation is within bound commits and stores the
\* new price at now.
C11_RateGate ==
    [][/\ ( /\ last'.op = "update_price"
            /\ token_price > 0
            /\ now < price_timestamp + MIN_UPDATE_INTERVAL ) =>
              /\ last'.err # ""
              /\ token_price' = token_price
              /\ price_timestamp' = price_timestamp
       /\ \A p \in PriceInputs, c \in ConfidenceInputs :
              LET u == last'.sender IN
              ( /\ token_price > 0
                /\ now >= price_timestamp + MIN_UPDATE_INTERVAL
                /\ UpdateAdmissible(u, p, c)
                /\ CalculateDeviation(token_price, p) <= MAX_PRICE_DEVIATION
                /\ UpdatePriceStep(u, p, c) ) =>
                  /\ last'.err = ""
                  /\ token_price' = p
                  /\ price_timestamp' = now]_vars

\* A second update has committed exactly min_update_interval after the
\* first (the only earlier clock values are T0 and T0 + 299).
C11_Witness ==
    /\ Committed("update_price")
    /\ last.r1 > 0
    /\ now = T0 + MIN_UPDATE_INTERVAL
    /\ price_timestamp = now

\* C12: with a stored price old > 0 and every other precondition met,
\* update_price(new) is rejected exactly when
\* floor(|new - old| * 10000 / old) > 1000, for increases and decreases
\* alike; consecutive accepted prices are within that bound; the first
\* update passes neither the interval nor the deviation gate.
C12_DeviationGate ==
    [][\A p \in PriceInputs, c \in ConfidenceInputs :
          LET u == last'.sender IN
          (UpdateAdmissible(u, p, c) /\ UpdatePriceStep(u, p, c)) =>
              LET diff == IF p > token_price THEN p - token_price
                          ELSE token_price - p
              IN  /\ (token_price > 0 /\ now >= price_timestamp + MIN_UPDATE_INTERVAL) =>
                         (last'.err # "" <=> (diff * 10000) \div token_price > 1000)
                  /\ (token_price > 0 /\ last'.err = "") =>
                         /\ token_price' = p
                         /\ (diff * 10000) \div token_price <= 1000
                  /\ token_price = 0 =>
                         (last'.err = "" /\ token_price' = p)]_vars

\* A decrease of exactly 1000 basis points has been accepted.
C12_Witness ==
    /\ Committed("update_price")
    /\ last.r1 > 0
    /\ last.a1 < last.r1
    /\ ((last.r1 - last.a1) * 10000) \div last.r1 = MAX_PRICE_DEVIATION
    /\ token_price = last.a1

\* C13: update_price commits only from states with is_paused = 0 and
\* circuit_breaker_active = 0; pause_oracle / unpause_oracle leave the
\* breaker as it was and activate / reset_circuit_breaker leave the pause
\* flag as it was; either flag changes only in a call sent by the admin.
C13_PolicyGating ==
    [][/\ (last'.op = "update_price" /\ last'.err = "") =>
              (or_is_paused = 0 /\ circuit_breaker_active = 0)
       /\ last'.op \in {"pause_oracle", "unpause_oracle"} =>
              circuit_breaker_active' = circuit_breaker_active
       /\ last'.op \in {"activate_circuit_breaker", "reset_circuit_breaker"} =>
              or_is_paused' = or_is_paused
       /\ (or_is_paused' # or_is_paused
               \/ circuit_breaker_active' # circuit_breaker_active) =>
              (last'.err = "" /\ last'.sender = Creator)]_vars

\* An update has been rejected by the breaker alone, the oracle not paused.
C13_Witness ==
    /\ last.op = "update_price"
    /\ last.err = "Circuit breaker active"
    /\ or_is_paused = 0
    /\ circuit_breaker_active = 1

\* The price and threshold fields the Oracle guards.
GuardedOracleFields ==
    <<token_price, price_timestamp, price_confidence, threshold_price, threshold_active>>

\* C14: token_price, price_timestamp, price_confidence, threshold_price and
\* threshold_active change only in a call whose sender is the admin or has
\* is_updater = 1; update_price, set_threshold and remove_threshold sent by
\* anyone else are rejected and change nothing.
C14_Authorization ==
    [][/\ GuardedOracleFields' # GuardedOracleFields =>
              /\ last'.err = ""
              /\ (last'.sender = Creator \/ is_updater[last'.sender] = 1)
       /\ ( /\ last'.op \in {"update_price", "set_threshold", "remove_threshold"}
            /\ ~(last'.sender = Creator \/ is_updater[last'.sender] = 1) ) =>
              /\ last'.err # ""
              /\ UNCHANGED oracleVars]_vars

\* A sender that is neither admin nor updater has been turned away from
\* update_price at the authorization check, with a price already stored.
C14_Witness ==
    /\ last.op = "update_price"
    /\ last.err = "Not authorized to update price"
    /\ last.sender # Creator
    /\ is_updater[last.sender] = 0
    /\ token_price > 0

\* C38: after a committed add_price_updater(w) sent by the admin for an
\* account w other than the admin, w passes the authorization check of
\* update_price and set_threshold, and updater_count is the number of
\* accounts with is_updater = 1.
C38_UpdaterAuthorized ==
    [][\A u, w \in Accounts :
          (AddPriceUpdater(u, w) /\ last'.err = "" /\ w # Creator) =>
              /\ w = Creator \/ is_updater'[w] = 1
              /\ updater_count' = Cardinality({x \in Accounts : is_updater'[x] = 1})]_vars

\* The admin has added an updater, which raised updater_count to 2, and
\* the account it named has then been turned away from update_price at
\* the authorization check.
C38_AddedUpdaterRejected ==
    /\ last.op = "update_price"
    /\ last.err = "Not authorized to update price"
    /\ last.sender # Creator
    /\ updater_count = 2
    /\ Cardinality({x \in Accounts : is_updater[x] = 1}) = 1

\* ========================================================================
\* StakingDapp
\* ========================================================================
\* The timestamps the host clock takes in the Staking runs: 10 intervals and
\* 200000 intervals of 10 s after T0.
StakingTimes == {T0, T0 + 100, T0 + 2000000}

\* Arguments of stake and unstake.
StakeInputs == {0, 1000}

\* Cap on one account's stake before a stake call adds to it.
MaxStake == 1000

\* Arguments (new_reward_amount, new_reward_interval) of
\* update_reward_parameters.
RewardParameterInputs == {<<0, 10>>, <<5, 0>>, <<5, 10>>}

\* _calculate_reward_internal line 251 with the division by the precision
\* factor taken before the multiplication by the stake.
RewardDividedBeforeStake(staked, last_time) ==
    IF staked = 0 THEN 0
    ELSE IF now <= last_time THEN 0
    ELSE ((((now - last_time) \div reward_interval) * reward_amount)
              \div PRECISION_FACTOR) * staked

\* _calculate_reward_internal for a position (staked, last_time).  With the
\* inputs above the product stays below 2^31, far from the UInt64 range.
CalculateReward(staked, last_time) ==
    IF staked = 0 THEN 0
    ELSE IF now <= last_time THEN 0
    ELSE ((((now - last_time) \div reward_interval) * reward_amount) * staked)
             \div PRECISION_FACTOR

\* _calculate_reward_internal for the sender u.
CalculateRewardInternal(u) == CalculateReward(staked_amount[u], last_reward_time[u])

\* _update_rewards: the sender's reward_balance after settlement.
SettledBalanceWithoutPending(u) == reward_balance[u]

SettledBalance(u) == reward_balance[u] + CalculateRewardInternal(u)

\* initialize, called again by the creator: the pause flag and the two
\* totals go back to 0; positions and reward parameters are kept.
InitializeStaking(u) ==
    LET err == IF u # Creator THEN "Only creator can initialize" ELSE ""
    IN  /\ IF err = ""
           THEN /\ st_is_paused' = 0
                /\ total_staked' = 0
                /\ total_rewards_distributed' = 0
           ELSE UNCHANGED <<st_is_paused, total_staked, total_rewards_distributed>>
        /\ last' = Call("initialize", err, u, 0, 0, 0, 0)
        /\ UNCHANGED <<now, reward_amount, reward_interval, staked_amount,
                       last_reward_time, reward_balance>>
        /\ UNCHANGED OtherThanStaking

\* stake line 86: the accrual window of the enlarged stake starts now.
StakeRewardTimeKept(u) == last_reward_time[u]

StakeRewardTime(u) == now

\* stake
Stake(u, amount) ==
    LET err == IF st_is_paused # 0 THEN "Staking is paused"
               ELSE IF ~(amount > 0) THEN "Amount must be positive"
               ELSE ""
    IN  /\ err = "" => staked_amount[u] <= MaxStake
        /\ IF err = ""
           THEN /\ reward_balance' = [reward_balance EXCEPT ![u] = SettledBalance(u)]
                /\ staked_amount' = [staked_amount EXCEPT ![u] = @ + amount]
                /\ total_staked' = total_staked + amount
                /\ last_reward_time' = [last_reward_time EXCEPT ![u] = StakeRewardTime(u)]
           ELSE UNCHANGED <<reward_balance, staked_amount, total_staked, last_reward_time>>
        /\ last' = Call("stake", err, u, amount, 0, 0, 0)
        /\ UNCHANGED <<now, st_is_paused, total_rewards_distributed, reward_amount,
                       reward_interval>>
        /\ UNCHANGED OtherThanStaking

\* unstake.  total_staked - amount below zero is a UInt64 underflow: the call
\* fails.
Unstake(u, amount) ==
    LET err == IF st_is_paused # 0 THEN "Staking is paused"
               ELSE IF ~(amount > 0) THEN "Amount must be positive"
               ELSE IF ~(staked_amount[u] >= amount) THEN "Insufficient staked amount"
               ELSE IF total_staked < amount THEN "- would result negative"
               ELSE ""
    IN  /\ IF err = ""
           THEN /\ reward_balance' = [reward_balance EXCEPT ![u] = SettledBalance(u)]
                /\ staked_amount' = [staked_amount EXCEPT ![u] = @ - amount]
                /\ total_staked' = total_staked - amount
                /\ last_reward_time' = [last_reward_time EXCEPT ![u] = now]
           ELSE UNCHANGED <<reward_balance, staked_amount, total_staked, last_reward_time>>
        /\ last' = Call("unstake", err, u, amount, 0, 0, 0)
        /\ UNCHANGED <<now, st_is_paused, total_rewards_distributed, reward_amount,
                       reward_interval>>
        /\ UNCHANGED OtherThanStaking

\* claim_rewards line 123 and compound_rewards line 264 fail after
\* _update_rewards has run: the failed call's write of last_reward_time
\* (line 231) is discarded with the rest of the call.
RejectedClaimRewardTimeSettled(u) == now

RejectedClaimRewardTime(u) == last_reward_time[u]

\* claim_rewards line 128: the total after the settled balance is paid out.
ClaimDistributedUnsettled(u) == total_rewards_distributed + reward_balance[u]

ClaimDistributed(u) == total_rewards_distributed + SettledBalance(u)

\* claim_rewards: r1 is the amount paid.
ClaimRewards(u) ==
    LET current_reward_balance == SettledBalance(u)
        err == IF st_is_paused # 0 THEN "Staking is paused"
               ELSE IF ~(current_reward_balance > 0) THEN "No rewards to claim"
               ELSE ""
    IN  /\ IF err = ""
           THEN /\ reward_balance' = [reward_balance EXCEPT ![u] = 0]
                /\ last_reward_time' = [last_reward_time EXCEPT ![u] = now]
                /\ total_rewards_distributed' = ClaimDistributed(u)
           ELSE /\ last_reward_time' =
                       [last_reward_time EXCEPT ![u] = RejectedClaimRewardTime(u)]
                /\ UNCHANGED <<reward_balance, total_rewards_distributed>>
        /\ last' = Call("claim_rewards", err, u, 0, 0, current_reward_balance, 0)
        /\ UNCHANGED <<now, st_is_paused, total_staked, reward_amount, reward_interval,
                       staked_amount>>
        /\ UNCHANGED OtherThanStaking

\* compound_rewards line 269: the compounded reward is added to total_staked
\* as it is to the caller's stake.
CompoundTotalStakedKept(reward) == total_staked

CompoundTotalStaked(reward) == total_staked + reward

\* compound_rewards: r1 is the amount moved into the stake.
CompoundRewards(u) ==
    LET current_reward_balance == SettledBalance(u)
        err == IF st_is_paused # 0 THEN "Staking is paused"
               ELSE IF ~(current_reward_balance > 0) THEN "No rewards to compound"
               ELSE ""
    IN  /\ IF err = ""
           THEN /\ reward_balance' = [reward_balance EXCEPT ![u] = 0]
                /\ staked_amount' = [staked_amount EXCEPT ![u] = @ + current_reward_balance]
                /\ total_staked' = CompoundTotalStaked(current_reward_balance)
                /\ last_reward_time' = [last_reward_time EXCEPT ![u] = now]
           ELSE /\ last_reward_time' =
                       [last_reward_time EXCEPT ![u] = RejectedClaimRewardTime(u)]
                /\ UNCHANGED <<reward_balance, staked_amount, total_staked>>
        /\ last' = Call("compound_rewards", err, u, 0, 0, current_reward_balance, 0)
        /\ UNCHANGED <<now, st_is_paused, total_rewards_distributed, reward_amount,
                       reward_interval>>
        /\ UNCHANGED OtherThanStaking

\* calculate_pending_rewards (read-only): r1 is the value returned.
CalculatePendingRewards(u) ==
    /\ last' = Call("calculate_pending_rewards", "", u, 0, 0, CalculateRewardInternal(u), 0)
    /\ UNCHANGED <<now, stakingVars>>
    /\ UNCHANGED OtherThanStaking

\* update_reward_parameters
UpdateRewardParameters(u, new_reward_amount, new_reward_interval) ==
    LET err == IF u # Creator THEN "Only admin can update"
               ELSE IF ~(new_reward_amount > 0) THEN "Reward amount must be positive"
               ELSE IF ~(new_reward_interval > 0) THEN "Reward interval must be positive"
               ELSE ""
    IN  /\ IF err = ""
           THEN /\ reward_amount' = new_reward_amount
                /\ reward_interval' = new_reward_interval
           ELSE UNCHANGED <<reward_amount, reward_interval>>
        /\ last' = Call("update_reward_parameters", err, u, new_reward_amount,
                        new_reward_interval, 0, 0)
        /\ UNCHANGED <<now, st_is_paused, total_staked, total_rewards_distributed,
                       staked_amount, last_reward_time, reward_balance>>
        /\ UNCHANGED OtherThanStaking

\* emergency_withdraw: r1 is the stake withdrawn.  No settlement, and
\* last_reward_time is left as it was.
EmergencyWithdraw(u) ==
    LET current_staked == staked_amount[u]
        err == IF ~(current_staked > 0) THEN "No tokens staked"
               ELSE IF total_staked < current_staked THEN "- would result negative"
               ELSE ""
    IN  /\ IF err = ""
           THEN /\ staked_amount' = [staked_amount EXCEPT ![u] = 0]
                /\ total_staked' = total_staked - current_staked
           ELSE UNCHANGED <<staked_amount, total_staked>>
        /\ last' = Call("emergency_withdraw", err, u, 0, 0, current_staked, 0)
        /\ UNCHANGED <<now, st_is_paused, total_rewards_distributed, reward_amount,
                       reward_interval, last_reward_time, reward_balance>>
        /\ UNCHANGED OtherThanStaking

\* pause_staking
PauseStaking(u) ==
    LET err == IF u # Creator THEN "Only admin can pause" ELSE ""
    IN  /\ st_is_paused' = IF err = "" THEN 1 ELSE st_is_paused
        /\ last' = Call("pause_staking", err, u, 0, 0, 0, 0)
        /\ UNCHANGED <<now, total_staked, total_rewards_distributed, reward_amount,
                       reward_interval, staked_amount, last_reward_time, reward_balance>>
        /\ UNCHANGED OtherThanStaking

\* unpause_staking
UnpauseStaking(u) ==
    LET err == IF u # Creator THEN "Only admin can unpause" ELSE ""
    IN  /\ st_is_paused' = IF err = "" THEN 0 ELSE st_is_paused
        /\ last' = Call("unpause_staking", err, u, 0, 0, 0, 0)
        /\ UNCHANGED <<now, total_staked, total_rewards_distributed, reward_amount,
                       reward_interval, staked_amount, last_reward_time, reward_balance>>
        /\ UNCHANGED OtherThanStaking

TickStakingWithin(times) ==
    /\ \E t \in times : t > now /\ now' = t
    /\ last' = Tick
    /\ UNCHANGED stakingVars
    /\ UNCHANGED OtherThanStaking

TickStaking == TickStakingWithin(StakingTimes)

NextStaking ==
    \/ \E u \in Accounts : InitializeStaking(u)
    \/ \E u \in Accounts, a \in StakeInputs : Stake(u, a)
    \/ \E u \in Accounts, a \in StakeInputs : Unstake(u, a)
    \/ \E u \in Accounts : ClaimRewards(u)
    \/ \E u \in Accounts : CompoundRewards(u)
    \/ \E u \in Accounts : CalculatePendingRewards(u)
    \/ \E u \in Accounts, q \in RewardParameterInputs : UpdateRewardParameters(u, q[1], q[2])
    \/ \E u \in Accounts : EmergencyWithdraw(u)
    \/ \E u \in Accounts : PauseStaking(u)
    \/ \E u \in Accounts : UnpauseStaking(u)
    \/ TickStaking

SpecStaking == InitAll /\ [][NextStaking]_vars

\* The operations on positions after the one initialize of deployment.
NextStakingOperations ==
    \/ \E u \in Accounts, a \in StakeInputs : Stake(u, a)
    \/ \E u \in Accounts, a \in StakeInputs : Unstake(u, a)
    \/ \E u \in Accounts : ClaimRewards(u)
    \/ \E u \in Accounts : CompoundRewards(u)
    \/ \E u \in Accounts : CalculatePendingRewards(u)
    \/ \E u \in Accounts, q \in RewardParameterInputs : UpdateRewardParameters(u, q[1], q[2])
    \/ \E u \in Accounts : EmergencyWithdraw(u)
    \/ \E u \in Accounts : PauseStaking(u)
    \/ \E u \in Accounts : UnpauseStaking(u)
    \/ TickStaking

SpecStakingOperations == InitAll /\ [][NextStakingOperations]_vars

\* A position that is topped up half way through an accrual window: stakes
\* of 500 and 1000 at the start, the middle and the end of 2,000,000 s, with
\* the reward parameters left as deployed.
TopUpInputs == {500, 1000}

TopUpTimes == {T0, T0 + 1000000, T0 + 2000000}

NextStakingTopUp ==
    \/ \E u \in Accounts, a \in TopUpInputs : Stake(u, a)
    \/ \E u \in Accounts : ClaimRewards(u)
    \/ \E u \in Accounts : CalculatePendingRewards(u)
    \/ TickStakingWithin(TopUpTimes)

SpecStakingTopUp == InitAll /\ [][NextStakingTopUp]_vars

\* ------------------------------------------------------------------------
\* Staking claims
\* ------------------------------------------------------------------------
\* floor(floor((t - t0) / interval) * amount * S / precision_factor), and 0
\* for an empty position or an empty window.
OwedReward(S, t0, t, amount, interval) ==
    IF S = 0 \/ t <= t0 THEN 0
    ELSE ((((t - t0) \div interval) * amount) * S) \div PRECISION_FACTOR

\* The position (S, t0) of the sender of the last call, after that call.
SenderStake == staked_amount[last.sender]

SenderRewardTime == last_reward_time[last.sender]

\* The accrual formula part of C15: the value returned for a position with
\* stake S > 0 settled at t0 <= now.
PendingFollowsFormula ==
    (Committed("calculate_pending_rewards") /\ SenderStake > 0 /\ now >= SenderRewardTime) =>
        last.r1 = OwedReward(SenderStake, SenderRewardTime, now, reward_amount, reward_interval)

\* The position and parameters of the worked example of C15, at `elapsed`
\* seconds after settlement.
ExampleOfC15(elapsed) ==
    /\ Committed("calculate_pending_rewards")
    /\ SenderStake = 1000
    /\ reward_amount = 5
    /\ reward_interval = 10
    /\ now - SenderRewardTime = elapsed

\* C15 as stated: calculate_pending_rewards returns
\* floor(floor((t - t0) / reward_interval) * reward_amount * S / precision_factor),
\* which for S = 1000, reward_amount = 5, reward_interval = 10 is 0 after
\* 100 s and 1000 after 2,000,000 s.
C15_AccrualAsStated ==
    /\ PendingFollowsFormula
    /\ ExampleOfC15(100) => last.r1 = 0
    /\ ExampleOfC15(2000000) => last.r1 = 1000

\* C15 amended: calculate_pending_rewards returns
\* floor(floor((t - t0) / reward_interval) * reward_amount * S / precision_factor),
\* which for S = 1000, reward_amount = 5, reward_interval = 10 is 0 after
\* 100 s and 1 after 2,000,000 s (200000 * 5 * 1000 = 10^9).
C15_AccrualFormula ==
    /\ PendingFollowsFormula
    /\ ExampleOfC15(100) => last.r1 = 0
    /\ ExampleOfC15(2000000) => last.r1 = 1

\* The worked example has been evaluated 2,000,000 s after settlement.
C15_Witness ==
    /\ ExampleOfC15(2000000)
    /\ last.r1 = 1

\* C16: a committed claim_rewards raises total_rewards_distributed by exactly
\* the caller's reward_balance before the call plus the reward pending at
\* the call, and leaves the caller with reward_balance 0, nothing pending
\* and the same stake.
C16_ClaimPaysWhatIsOwed ==
    [][(last'.op = "claim_rewards" /\ last'.err = "") =>
          LET u == last'.sender
              owed == reward_balance[u]
                        + OwedReward(staked_amount[u], last_reward_time[u], now,
                                     reward_amount, reward_interval)
          IN  /\ total_rewards_distributed' = total_rewards_distributed + owed
              /\ last'.r1 = owed
              /\ reward_balance'[u] = 0
              /\ OwedReward(staked_amount'[u], last_reward_time'[u], now',
                            reward_amount', reward_interval') = 0
              /\ staked_amount' = staked_amount]_vars

\* A staker has claimed a positive reward and holds the stake that earned it.
C16_Witness ==
    /\ Committed("claim_rewards")
    /\ last.r1 > 0
    /\ SenderStake > 0
    /\ SenderRewardTime = now
    /\ total_rewards_distributed >= last.r1

\* C17: a committed emergency_withdraw sets the caller's stake to 0, lowers
\* total_staked by that stake and changes no reward_balance; and the reward
\* pending then is never credited later: an account with no stake is
\* credited nothing by any operation, and when it stakes again its accrual
\* window starts at the time of that call.
C17_EmergencyForfeits ==
    [][/\ (last'.op = "emergency_withdraw" /\ last'.err = "") =>
              LET u == last'.sender
              IN  /\ staked_amount[u] > 0
                  /\ last'.r1 = staked_amount[u]
                  /\ staked_amount' = [staked_amount EXCEPT ![u] = 0]
                  /\ total_staked' = total_staked - staked_amount[u]
                  /\ reward_balance' = reward_balance
       /\ \A u \in Accounts :
              staked_amount[u] = 0 =>
                  /\ reward_balance'[u] <= reward_balance[u]
                  /\ staked_amount'[u] > 0 => last_reward_time'[u] = now']_vars

\* A stake of 1000 has been withdrawn 2,000,000 s after it was settled, with
\* one unit of reward pending and none credited.
C17_Witness ==
    /\ Committed("emergency_withdraw")
    /\ last.r1 = 1000
    /\ now - SenderRewardTime = 2000000
    /\ reward_balance[last.sender] = 0

\* C29: a committed stake(amount) or unstake(amount) at time t credits the
\* caller's reward_balance with the reward pending on the stake held before
\* the call over the window since last_reward_time, then raises or lowers
\* the stake by amount, and leaves last_reward_time = t, so that nothing is
\* pending on the new stake at t.
C29_SettleBeforeChange ==
    [][(last'.op \in {"stake", "unstake"} /\ last'.err = "") =>
          LET u == last'.sender
              pending == OwedReward(staked_amount[u], last_reward_time[u], now,
                                    reward_amount, reward_interval)
          IN  /\ reward_balance'[u] = reward_balance[u] + pending
              /\ staked_amount'[u] =
                     IF last'.op = "stake" THEN staked_amount[u] + last'.a1
                     ELSE staked_amount[u] - last'.a1
              /\ last_reward_time'[u] = now
              /\ OwedReward(staked_amount'[u], last_reward_time'[u], now',
                            reward_amount', reward_interval') = 0
              /\ \A v \in Accounts \ {u} :
                     /\ reward_balance'[v] = reward_balance[v]
                     /\ staked_amount'[v] = staked_amount[v]
                     /\ last_reward_time'[v] = last_reward_time[v]]_vars

\* A staker of 1000 has added 1000 more 2,000,000 s after settlement and
\* was credited the one unit earned by the 1000 held until then.
C29_Witness ==
    /\ Committed("stake")
    /\ SenderStake = 2000
    /\ SenderRewardTime = now
    /\ now = T0 + 2000000
    /\ reward_balance[last.sender] = 1

\* A staker has unstaked everything and keeps the reward accrued until then.
C29_WitnessUnstake ==
    /\ Committed("unstake")
    /\ SenderStake = 0
    /\ SenderRewardTime = now
    /\ reward_balance[last.sender] > 0

\* The rejections of claim_rewards and compound_rewards for a settled
\* reward balance of 0.
NothingToClaim == {"No rewards to claim", "No rewards to compound"}

\* C30: a claim_rewards or compound_rewards rejected because the settled
\* reward balance is 0 leaves the caller's reward_balance and
\* last_reward_time, and with them the reward pending on the window elapsed
\* so far, exactly as before the call.
C30_RejectedClaimWritesNothing ==
    [][(last'.op \in {"claim_rewards", "compound_rewards"}
            /\ last'.err \in NothingToClaim) =>
          LET u == last'.sender
          IN  /\ reward_balance[u] = 0
              /\ reward_balance'[u] = reward_balance[u]
              /\ last_reward_time'[u] = last_reward_time[u]
              /\ UNCHANGED stakingVars]_vars

\* A claim has been rejected part of the way through an accrual window: the
\* caller holds a stake settled before now, and the window is still open.
C30_Witness ==
    /\ last.op = "claim_rewards"
    /\ last.err = "No rewards to claim"
    /\ SenderStake > 0
    /\ SenderRewardTime < now

\* The same for a rejected compound_rewards.
C30_WitnessCompound ==
    /\ last.op = "compound_rewards"
    /\ last.err = "No rewards to compound"
    /\ SenderStake > 0
    /\ SenderRewardTime < now

\* reward_balance plus the reward pending at time t for the position as it
\* is recorded now, with the reward parameters as they are now.
TotalRewardAt(u, t) ==
    reward_balance[u]
        + OwedReward(staked_amount[u], last_reward_time[u], t, reward_amount,
                     reward_interval)

\* C31: for a position with stake S > 0 last settled at t0, a committed
\* stake(x) at t1 > t0 never lowers the total reward (reward_balance +
\* pending) observed at any later time t2, compared with the total that
\* would be observed at t2 had the call not been made.
C31_TopUpNeverEarnsLess ==
    [][(last'.op = "stake" /\ last'.err = "") =>
          LET u == last'.sender IN
          (staked_amount[u] > 0 /\ last_reward_time[u] < now) =>
              \A t2 \in TopUpTimes :
                  t2 > now =>
                      reward_balance'[u]
                          + OwedReward(staked_amount'[u], last_reward_time'[u], t2,
                                       reward_amount', reward_interval')
                        >= TotalRewardAt(u, t2)]_vars

\* A position of 1000 settled at T0 was topped up with 500 at T0 + 1,000,000;
\* at T0 + 2,000,000 it holds no reward and none is pending, where the
\* untouched position would have earned 1.
C31_TopUpLostReward ==
    /\ Committed("calculate_pending_rewards")
    /\ now = T0 + 2000000
    /\ SenderStake = 1500
    /\ SenderRewardTime = T0 + 1000000
    /\ reward_balance[last.sender] = 0
    /\ last.r1 = 0
    /\ total_rewards_distributed = 0
    /\ OwedReward(1000, T0, now, reward_amount, reward_interval) = 1

\* C32: in every state reached by stake, unstake, claim_rewards,
\* compound_rewards and emergency_withdraw calls of any accounts,
\* total_staked is the sum of staked_amount over all accounts.
C32_TotalStakedIsSum == total_staked = Total(staked_amount)

\* Both accounts hold a stake and one of them has just compounded a reward
\* into it.
C32_Witness ==
    /\ Committed("compound_rewards")
    /\ last.r1 > 0
    /\ \A u \in Accounts : staked_amount[u] > 0
    /\ total_staked = Total(staked_amount)

\* ========================================================================
\* YTAutoConverter
\* ========================================================================
\* user_maturity, which configure_conversion, add_maturity and
\* remove_maturity write and only get_user_config reads, is not part of the
\* state: the three methods keep their checks and their other writes.
CV_FEE_DENOMINATOR == 10000

SLIPPAGE_FACTOR == 9950

MAX_CONVERSION_FEE == 1000

\* The timestamps the host clock takes in the Converter runs.
ConverterTimes == {T0, T0 + 1}

\* Arguments of the Converter's methods.
EnabledInputs == {0, 1}

UserThresholdInputs == {0, 100}

ConverterMaturityInputs == {T0 + 1, T0 + 2}

YtDepositInputs == {0, 1000}

MinPtInputs == {965, 992, 993}

DeadlineInputs == {T0, T0 + 1}

ConversionFeeInputs == {30, 1001}

PtWithdrawInputs == {0, 992}

AddressInputs == {DeployedAddresses}

\* Cap on one account's deposited YT.
MaxYt == 1000

\* Cap on one account's PT balance in the Converter.
MaxPt == 992

\* initialize, called again by the creator.
InitializeConverter(u, addresses) ==
    LET err == IF u # Creator THEN "Only creator can initialize" ELSE ""
    IN  /\ IF err = ""
           THEN /\ oracle_address' = addresses[1]
                /\ tokenization_address' = addresses[2]
                /\ amm_address' = addresses[3]
                /\ conversion_fee' = INITIAL_CONVERSION_FEE
                /\ cv_is_paused' = 0
                /\ total_conversions' = 0
           ELSE UNCHANGED <<oracle_address, tokenization_address, amm_address,
                            conversion_fee, cv_is_paused, total_conversions>>
        /\ last' = Call("initialize", err, u, 0, 0, 0, 0)
        /\ UNCHANGED <<now, conversion_enabled, cv_threshold_price, conversion_executed,
                       cv_yt_balance, cv_pt_balance>>
        /\ UNCHANGED OtherThanConverter

\* configure_conversion line 91: the execution latch after a configuration.
ExecutedAfterConfigureKept(u) == conversion_executed[u]

ExecutedAfterConfigure(u) == 0

\* configure_conversion
ConfigureConversion(u, enabled, threshold, maturity) ==
    LET err == IF ~(threshold > 0) THEN "Threshold price must be positive"
               ELSE IF ~(maturity > now) THEN "Maturity must be in future"
               ELSE ""
    IN  /\ IF err = ""
           THEN /\ conversion_enabled' = [conversion_enabled EXCEPT ![u] = enabled]
                /\ cv_threshold_price' = [cv_threshold_price EXCEPT ![u] = threshold]
                /\ conversion_executed' =
                       [conversion_executed EXCEPT ![u] = ExecutedAfterConfigure(u)]
           ELSE UNCHANGED <<conversion_enabled, cv_threshold_price, conversion_executed>>
        /\ last' = Call("configure_conversion", err, u, enabled, threshold, 0, 0)
        /\ UNCHANGED <<now, oracle_address, tokenization_address, amm_address,
                       conversion_fee, cv_is_paused, total_conversions, cv_yt_balance,
                       cv_pt_balance>>
        /\ UNCHANGED OtherThanConverter

\* deposit_yt_tokens
DepositYtTokens(u, amount) ==
    LET err == IF ~(amount > 0) THEN "Amount must be positive" ELSE ""
    IN  /\ err = "" => cv_yt_balance[u] + amount <= MaxYt
        /\ cv_yt_balance' =
               IF err = "" THEN [cv_yt_balance EXCEPT ![u] = @ + amount]
               ELSE cv_yt_balance
        /\ last' = Call("deposit_yt_tokens", err, u, amount, 0, 0, 0)
        /\ UNCHANGED <<now, oracle_address, tokenization_address, amm_address,
                       conversion_fee, cv_is_paused, total_conversions,
                       conversion_enabled, cv_threshold_price, conversion_executed,
                       cv_pt_balance>>
        /\ UNCHANGED OtherThanConverter

\* execute_conversion line 133: the fee, in basis points of the YT balance.
FeeAmountAbsolute(yt_held) == conversion_fee

FeeAmount(yt_held) ==
    (yt_held * conversion_fee) \div CV_FEE_DENOMINATOR

\* _perform_market_conversion line 289: the PT obtained for `amount`.
MarketRate(amount) == (amount * SLIPPAGE_FACTOR) \div 10000

\* execute_conversion lines 123-126: the stand-in for the Oracle's
\* threshold-reached predicate.
ThresholdCheckPasses(u) == cv_threshold_price[u] > 0

\* execute_conversion line 142: the execution latch after a conversion.
ExecutedAfterConversionKept(u) == conversion_executed[u]

ExecutedAfterConversion(u) == 1

\* execute_conversion lines 114-137: every assert precedes the first write
\* (line 140), so a rejected call leaves the caller's YT balance as it was.
RejectedYtBalanceDebited(u) == cv_yt_balance[u] - FeeAmount(cv_yt_balance[u])

RejectedYtBalance(u) == cv_yt_balance[u]

\* execute_conversion.  The `user` argument is not read: the sender's
\* configuration and balances are used.  r1 is the PT credited, r2 the YT
\* converted.
ExecuteConversion(u, user, min_pt_amount, deadline) ==
    LET yt_held == cv_yt_balance[u]
        conversion_amount == yt_held - FeeAmount(yt_held)
        received_pt == MarketRate(conversion_amount)
        err == IF cv_is_paused # 0 THEN "Converter is paused"
               ELSE IF ~(now <= deadline) THEN "Transaction expired"
               ELSE IF conversion_enabled[u] # 1 THEN "Conversion not enabled"
               ELSE IF conversion_executed[u] # 0 THEN "Conversion already executed"
               ELSE IF ~ThresholdCheckPasses(u) THEN "Threshold not reached"
               ELSE IF ~(yt_held > 0) THEN "No YT tokens to convert"
               ELSE IF ~(received_pt >= min_pt_amount) THEN "Insufficient output amount"
               ELSE ""
    IN  /\ err = "" => total_conversions + 1 \in Counts
        /\ err = "" => cv_pt_balance[u] + received_pt <= MaxPt
        /\ IF err = ""
           THEN /\ cv_yt_balance' = [cv_yt_balance EXCEPT ![u] = 0]
                /\ cv_pt_balance' = [cv_pt_balance EXCEPT ![u] = @ + received_pt]
                /\ conversion_executed' =
                       [conversion_executed EXCEPT ![u] = ExecutedAfterConversion(u)]
                /\ total_conversions' = total_conversions + 1
           ELSE /\ cv_yt_balance' = [cv_yt_balance EXCEPT ![u] = RejectedYtBalance(u)]
                /\ UNCHANGED <<cv_pt_balance, conversion_executed, total_conversions>>
        /\ last' = Call("execute_conversion", err, u, min_pt_amount, deadline,
                        received_pt, yt_held)
        /\ UNCHANGED <<now, oracle_address, tokenization_address, amm_address,
                       conversion_fee, cv_is_paused, conversion_enabled,
                       cv_threshold_price>>
        /\ UNCHANGED OtherThanConverter

\* add_maturity: only its check is modelled (user_maturity is not kept).
AddMaturity(u, maturity) ==
    LET err == IF ~(maturity > now) THEN "Maturity must be in future" ELSE ""
    IN  /\ last' = Call("add_maturity", err, u, 0, maturity, 0, 0)
        /\ UNCHANGED <<now, converterVars>>
        /\ UNCHANGED OtherThanConverter

\* remove_maturity
RemoveMaturity(u) ==
    /\ last' = Call("remove_maturity", "", u, 0, 0, 0, 0)
    /\ UNCHANGED <<now, converterVars>>
    /\ UNCHANGED OtherThanConverter

\* set_conversion_fee
SetConversionFee(u, new_fee) ==
    LET err == IF u # Creator THEN "Only admin can set fee"
               ELSE IF ~(new_fee <= MAX_CONVERSION_FEE) THEN "Fee too high (max 10%)"
               ELSE ""
    IN  /\ conversion_fee' = IF err = "" THEN new_fee ELSE conversion_fee
        /\ last' = Call("set_conversion_fee", err, u, new_fee, 0, 0, 0)
        /\ UNCHANGED <<now, oracle_address, tokenization_address, amm_address,
                       cv_is_paused, total_conversions, conversion_enabled,
                       cv_threshold_price, conversion_executed, cv_yt_balance,
                       cv_pt_balance>>
        /\ UNCHANGED OtherThanConverter

\* pause_converter
PauseConverter(u) ==
    LET err == IF u # Creator THEN "Only admin can pause" ELSE ""
    IN  /\ cv_is_paused' = IF err = "" THEN 1 ELSE cv_is_paused
        /\ last' = Call("pause_converter", err, u, 0, 0, 0, 0)
        /\ UNCHANGED <<now, oracle_address, tokenization_address, amm_address,
                       conversion_fee, total_conversions, conversion_enabled,
                       cv_threshold_price, conversion_executed, cv_yt_balance,
                       cv_pt_balance>>
        /\ UNCHANGED OtherThanConverter

\* unpause_converter
UnpauseConverter(u) ==
    LET err == IF u # Creator THEN "Only admin can unpause" ELSE ""
    IN  /\ cv_is_paused' = IF err = "" THEN 0 ELSE cv_is_paused
        /\ last' = Call("unpause_converter", err, u, 0, 0, 0, 0)
        /\ UNCHANGED <<now, oracle_address, tokenization_address, amm_address,
                       conversion_fee, total_conversions, conversion_enabled,
                       cv_threshold_price, conversion_executed, cv_yt_balance,
                       cv_pt_balance>>
        /\ UNCHANGED OtherThanConverter

\* emergency_disable_conversion
EmergencyDisableConversion(u) ==
    /\ conversion_enabled' = [conversion_enabled EXCEPT ![u] = 0]
    /\ last' = Call("emergency_disable_conversion", "", u, 0, 0, 0, 0)
    /\ UNCHANGED <<now, oracle_address, tokenization_address, amm_address,
                   conversion_fee, cv_is_paused, total_conversions,
                   cv_threshold_price, conversion_executed, cv_yt_balance,
                   cv_pt_balance>>
    /\ UNCHANGED OtherThanConverter

\* withdraw_pt_tokens
WithdrawPtTokens(u, amount) ==
    LET err == IF ~(amount > 0) THEN "Amount must be positive"
               ELSE IF ~(cv_pt_balance[u] >= amount) THEN "Insufficient PT balance"
               ELSE ""
    IN  /\ cv_pt_balance' =
               IF err = "" THEN [cv_pt_balance EXCEPT ![u] = @ - amount]
               ELSE cv_pt_balance
        /\ last' = Call("withdraw_pt_tokens", err, u, amount, 0, 0, 0)
        /\ UNCHANGED <<now, oracle_address, tokenization_address, amm_address,
                       conversion_fee, cv_is_paused, total_conversions,
                       conversion_enabled, cv_threshold_price, conversion_executed,
                       cv_yt_balance>>
        /\ UNCHANGED OtherThanConverter

\* update_addresses
UpdateAddresses(u, addresses) ==
    LET err == IF u # Creator THEN "Only admin can update addresses" ELSE ""
    IN  /\ IF err = ""
           THEN /\ oracle_address' = addresses[1]
                /\ tokenization_address' = addresses[2]
                /\ amm_address' = addresses[3]
           ELSE UNCHANGED <<oracle_address, tokenization_address, amm_address>>
        /\ last' = Call("update_addresses", err, u, 0, 0, 0, 0)
        /\ UNCHANGED <<now, conversion_fee, cv_is_paused, total_conversions,
                       conversion_enabled, cv_threshold_price, conversion_executed,
                       cv_yt_balance, cv_pt_balance>>
        /\ UNCHANGED OtherThanConverter

TickConverter ==
    /\ \E t \in ConverterTimes : t > now /\ now' = t
    /\ last' = Tick
    /\ UNCHANGED converterVars
    /\ UNCHANGED OtherThanConverter

NextConverter ==
    \/ \E u \in Accounts, a \in AddressInputs : InitializeConverter(u, a)
    \/ \E u \in Accounts, e \in EnabledInputs, t \in UserThresholdInputs,
          m \in ConverterMaturityInputs : ConfigureConversion(u, e, t, m)
    \/ \E u \in Accounts, a \in YtDepositInputs : DepositYtTokens(u, a)
    \/ \E u \in Accounts, user \in Accounts, m \in MinPtInputs, dl \in DeadlineInputs :
          ExecuteConversion(u, user, m, dl)
    \/ \E u \in Accounts, m \in ConverterMaturityInputs : AddMaturity(u, m)
    \/ \E u \in Accounts : RemoveMaturity(u)
    \/ \E u \in Accounts, f \in ConversionFeeInputs : SetConversionFee(u, f)
    \/ \E u \in Accounts : PauseConverter(u)
    \/ \E u \in Accounts : UnpauseConverter(u)
    \/ \E u \in Accounts : EmergencyDisableConversion(u)
    \/ \E u \in Accounts, a \in PtWithdrawInputs : WithdrawPtTokens(u, a)
    \/ \E u \in Accounts, a \in AddressInputs : UpdateAddresses(u, a)
    \/ TickConverter

SpecConverter == InitAll /\ [][NextConverter]_vars

\* Another Oracle, Splitter and AMM the admin may point the Converter at.
ReplacementAddresses == <<"oracle_app_2", "tokenization_app_2", "amm_app_2">>

\* The Converter's operations with update_addresses also offered addresses
\* other than the deployed ones.
NextConverterRewiring ==
    \/ NextConverter
    \/ \E u \in Accounts : UpdateAddresses(u, ReplacementAddresses)

SpecConverterRewiring == InitAll /\ [][NextConverterRewiring]_vars

\* ------------------------------------------------------------------------
\* Converter claims
\* ------------------------------------------------------------------------
\* C18: while a user's conversion_executed is 1, every execute_conversion by
\* that user is rejected with the Converter state unchanged; a committed
\* execute_conversion starts from conversion_executed = 0 and sets it to 1;
\* and it returns from 1 to 0 only in a committed configure_conversion by
\* that user.  Hence between two successful executions of one user there is
\* a configure_conversion by that user.
C18_OneShotLatch ==
    [][/\ (last'.op = "execute_conversion" /\ conversion_executed[last'.sender] = 1) =>
              (last'.err # "" /\ UNCHANGED converterVars)
       /\ (last'.op = "execute_conversion" /\ last'.err = "") =>
              /\ conversion_executed[last'.sender] = 0
              /\ conversion_executed'[last'.sender] = 1
       /\ \A u \in Accounts :
              (conversion_executed[u] = 1 /\ conversion_executed'[u] = 0) =>
                  /\ last'.op = "configure_conversion"
                  /\ last'.err = ""
                  /\ last'.sender = u]_vars

\* A repeated execute_conversion has been turned away by the latch.
C18_Witness ==
    /\ last.op = "execute_conversion"
    /\ last.err = "Conversion already executed"
    /\ conversion_executed[last.sender] = 1
    /\ cv_yt_balance[last.sender] > 0

\* A user has executed a second time, after configuring again.
C18_WitnessAgain ==
    /\ Committed("execute_conversion")
    /\ total_conversions = 2
    /\ \E u \in Accounts : u # last.sender /\ conversion_executed[u] = 0
                              /\ cv_threshold_price[u] = 0

\* The case of C19: the caller, configured with threshold 100 and holding
\* 1000 YT, has a conversion committed in this step at conversion_fee = 30.
ExampleOfC19 ==
    /\ last'.op = "execute_conversion"
    /\ last'.err = ""
    /\ conversion_fee = 30
    /\ cv_threshold_price[last'.sender] = 100
    /\ cv_yt_balance[last'.sender] = 1000

\* C19 as stated: that conversion credits exactly
\* floor((1000 - 30) * 9950 / 10000) = 965 PT and sets the YT balance to 0.
C19_OutputAsStated ==
    [][ExampleOfC19 =>
          /\ cv_pt_balance'[last'.sender] = cv_pt_balance[last'.sender] + 965
          /\ cv_yt_balance'[last'.sender] = 0]_vars

\* C19 amended: the fee is 30 basis points of the 1000 YT, i.e. 3, and the
\* conversion credits exactly floor((1000 - 3) * 9950 / 10000) = 992 PT and
\* sets the YT balance to 0.
C19_ConcreteOutput ==
    [][ExampleOfC19 =>
          /\ cv_pt_balance'[last'.sender] = cv_pt_balance[last'.sender] + 992
          /\ last'.r1 = 992
          /\ cv_yt_balance'[last'.sender] = 0]_vars

\* The conversion of 1000 YT has committed with min_pt_amount = 992.
C19_Witness ==
    /\ Committed("execute_conversion")
    /\ last.r2 = 1000
    /\ last.a1 = 992
    /\ conversion_fee = 30
    /\ cv_threshold_price[last.sender] = 100
    /\ cv_pt_balance[last.sender] = 992
    /\ cv_yt_balance[last.sender] = 0

\* The Oracle's threshold-reached predicate for a threshold value: a price
\* is present, not stale, and at or above the threshold.
OracleReached(threshold) ==
    /\ token_price > 0
    /\ now <= price_timestamp + STALENESS_THRESHOLD
    /\ token_price >= threshold

\* After emergency_disable_conversion the caller's conversion_enabled is 0;
\* while it is not 1 every execute_conversion by that user is rejected with
\* the Converter state unchanged; it becomes 1 only in a committed
\* configure_conversion by that user with enabled = 1; and
\* conversion_executed returns from 1 to 0 only in a committed
\* configure_conversion by that user.
DisabledUntilConfigured ==
    /\ last'.op = "emergency_disable_conversion" =>
           (last'.err = "" /\ conversion_enabled'[last'.sender] = 0)
    /\ (last'.op = "execute_conversion" /\ conversion_enabled[last'.sender] # 1) =>
           (last'.err # "" /\ UNCHANGED converterVars)
    /\ \A u \in Accounts :
           (conversion_enabled[u] # 1 /\ conversion_enabled'[u] = 1) =>
               /\ last'.op = "configure_conversion"
               /\ last'.err = ""
               /\ last'.sender = u
               /\ last'.a1 = 1
    /\ \A u \in Accounts :
           (conversion_executed[u] = 1 /\ conversion_executed'[u] = 0) =>
               /\ last'.op = "configure_conversion"
               /\ last'.err = ""
               /\ last'.sender = u

\* total_conversions counts the committed execute_conversion calls: it
\* rises by one in each of them and no other step changes it.
CountsConversions ==
    total_conversions' =
        total_conversions
            + (IF last'.op = "execute_conversion" /\ last'.err = "" THEN 1 ELSE 0)

\* C39: emergency_disable_conversion makes every later execute_conversion
\* by that user fail until the user calls configure_conversion with
\* enabled = 1; configure_conversion is the only operation that resets
\* conversion_executed from 1 to 0; and total_conversions, 0 at
\* deployment, always equals the number of committed execute_conversion
\* calls so far.
C39_DisableAndCount == [][DisabledUntilConfigured /\ CountsConversions]_vars

\* The part of C39 about the two per-user flags.
C39_DisabledUntilConfigured == [][DisabledUntilConfigured]_vars

\* A user has been turned away from execute_conversion after an emergency
\* disable.
C39_WitnessDisabled ==
    /\ last.op = "execute_conversion"
    /\ last.err = "Conversion not enabled"
    /\ cv_threshold_price[last.sender] > 0
    /\ cv_yt_balance[last.sender] > 0
    /\ conversion_executed[last.sender] = 0

\* A conversion has been executed, as the user's latch records, and a
\* later initialize has put total_conversions back to 0.
C39_CountReset ==
    /\ Committed("initialize")
    /\ total_conversions = 0
    /\ \E u \in Accounts : conversion_executed[u] = 1 /\ cv_pt_balance[u] > 0

\* C20: execute_conversion commits only in states where the Oracle holds a
\* fresh price at or above the caller's stored threshold_price.
C20_ThresholdGating ==
    [][(last'.op = "execute_conversion" /\ last'.err = "") =>
          OracleReached(cv_threshold_price[last'.sender])]_vars

\* The six rejections of execute_conversion that C21 lists.
ExecuteRejections ==
    {"Converter is paused", "Transaction expired", "Conversion not enabled",
     "Conversion already executed", "No YT tokens to convert",
     "Insufficient output amount"}

\* C21: every rejected execute_conversion leaves yt_balance, pt_balance,
\* conversion_executed and total_conversions unchanged; and whenever an
\* account's YT balance in the Converter goes down, the same step is a
\* committed execute_conversion by that account that credits its PT balance
\* with the amount received, sets its Executed latch and counts the
\* conversion.
C21_AllOrNothing ==
    [][/\ (last'.op = "execute_conversion" /\ last'.err # "") =>
              /\ last'.err \in ExecuteRejections
              /\ UNCHANGED <<cv_yt_balance, cv_pt_balance, conversion_executed,
                             total_conversions>>
       /\ \A u \in Accounts :
              cv_yt_balance'[u] < cv_yt_balance[u] =>
                  /\ last'.op = "execute_conversion"
                  /\ last'.err = ""
                  /\ last'.sender = u
                  /\ cv_yt_balance'[u] = 0
                  /\ cv_pt_balance'[u] = cv_pt_balance[u] + last'.r1
                  /\ conversion_executed'[u] = 1
                  /\ total_conversions' = total_conversions + 1]_vars

\* A conversion has been rejected at the last assert, the output check,
\* with the caller's YT still deposited.
C21_Witness ==
    /\ last.op = "execute_conversion"
    /\ last.err = "Insufficient output amount"
    /\ cv_yt_balance[last.sender] = 1000
    /\ conversion_executed[last.sender] = 0

\* ========================================================================
\* Claims about initialize
\* ========================================================================
\* C22: initialize is callable exactly once.  Init is the state after the one
\* successful initialize of every contract, so every later initialize call,
\* whoever sends it, is rejected and changes no contract's state.
C22_InitializeOnce ==
    [][last'.op = "initialize" =>
           /\ last'.err # ""
           /\ UNCHANGED <<splitterVars, tokenVars, ammVars, oracleVars,
                          stakingVars, converterVars>>]_vars

\* A second initialize by the creator has committed and zeroed total_supply
\* while an account still holds tokens.
C22_ResetUnderBalances ==
    /\ Committed("initialize")
    /\ last.sender = Creator
    /\ tk_total_supply = 0
    /\ \E u \in Accounts : tk_balance[u] > 0

\* C23: the maturity the token was initialized with never changes.
C23_MaturityImmutable == [][tk_maturity' = tk_maturity]_vars

\* A repeated initialize has replaced the maturity while tokens are held.
C23_MaturityReplaced ==
    /\ Committed("initialize")
    /\ tk_maturity = T0 + THIRTY_DAYS + 1
    /\ \E u \in Accounts : tk_balance[u] > 0

\* ========================================================================
\* Converter references
\* ========================================================================
\* C24: once the admin configuration has set oracle_address,
\* tokenization_address and amm_address, no operation by any sender changes
\* any of the three.
C24_AddressesImmutable ==
    [][UNCHANGED <<oracle_address, tokenization_address, amm_address>>]_vars

\* update_addresses has committed and the Converter now points at other
\* contracts than the ones it was deployed with, with YT still deposited.
C24_AddressesReplaced ==
    /\ Committed("update_addresses")
    /\ <<oracle_address, tokenization_address, amm_address>> = ReplacementAddresses
    /\ \E u \in Accounts : cv_yt_balance[u] > 0

\* ========================================================================
\* Token Ledger amount validation
\* ========================================================================
\* The token operations that take an amount.
AmountOperations == {"mint", "burn", "transfer", "approve", "transfer_from"}

\* C25: every mint, burn, transfer, approve or transfer_from called with
\* amount = 0 is rejected and leaves balances, allowances and total_supply
\* unchanged.
C25_ZeroAmountRejected ==
    [][(last'.op \in AmountOperations /\ last'.a1 = 0) =>
           /\ last'.err # ""
           /\ UNCHANGED <<tk_balance, tk_allowance, tk_total_supply>>]_vars

\* approve(spender, 0) has committed.
C25_ZeroApproveCommitted ==
    /\ Committed("approve")
    /\ last.a1 = 0
    /\ tk_allowance[last.sender] = 0
    /\ tk_balance[last.sender] > 0

\* The same statement for the four operations that do assert amount > 0.
C25_ZeroAmountRejectedExceptApprove ==
    [][(last'.op \in AmountOperations \ {"approve"} /\ last'.a1 = 0) =>
           /\ last'.err # ""
           /\ UNCHANGED <<tk_balance, tk_allowance, tk_total_supply>>]_vars

\* ========================================================================
\* The first liquidity deposit
\* ========================================================================
\* The last call was a committed add_liquidity(a1, a2) into an empty pool.
FirstDepositCommitted ==
    /\ Committed("add_liquidity")
    /\ last.h[3] = 0 /\ last.h[4] = 0

\* r is floor(sqrt(x)).
IsFloorSqrt(r, x) == r * r <= x /\ x < (r + 1) * (r + 1)

\* _sqrt returns floor(sqrt(x)) for every x up to ExactSqrtLimit, and one
\* more than that for the next x.
SqrtExactUpToLimit ==
    /\ \A x \in 0 .. ExactSqrtLimit : IsFloorSqrt(Sqrt(x), x)
    /\ ~IsFloorSqrt(Sqrt(ExactSqrtLimit + 1), ExactSqrtLimit + 1)

\* C28 as stated: a committed add_liquidity(a, b) into a pool with both
\* reserves 0 sets the reserves to (a, b) and mints exactly
\* floor(sqrt(a * b)) shares to the caller, for every a, b > 0.
C28_FirstDepositAsStated ==
    FirstDepositCommitted =>
        /\ reserve_a = last.a1 /\ reserve_b = last.a2
        /\ liquidity_balance[last.sender] = last.r1
        /\ total_liquidity = last.r1
        /\ IsFloorSqrt(last.r1, last.a1 * last.a2)

\* C28 within the reach of _sqrt: the same, with the shares exactly
\* floor(sqrt(a * b)) when a * b <= ExactSqrtLimit; for larger products the
\* shares minted are never below floor(sqrt(a * b)) and at a * b = 176 * 178
\* they are one above it.
C28_FirstDeposit ==
    FirstDepositCommitted =>
        /\ last.a1 > 0 /\ last.a2 > 0
        /\ reserve_a = last.a1 /\ reserve_b = last.a2
        /\ liquidity_balance[last.sender] = last.r1
        /\ total_liquidity = last.r1
        /\ last.r1 = Sqrt(last.a1 * last.a2)
        /\ SqrtExactUpToLimit
        /\ last.a1 * last.a2 <= ExactSqrtLimit =>
               IsFloorSqrt(last.r1, last.a1 * last.a2)
        /\ last.a1 * last.a2 < (last.r1 + 1) * (last.r1 + 1)
        /\ last.a1 * last.a2 = 176 * 178 => last.r1 = 177

\* A first deposit at an uneven ratio whose product, 176 * 177, is the
\* largest offered that does not exceed ExactSqrtLimit.
C28_Witness ==
    /\ FirstDepositCommitted
    /\ last.a1 = 176 /\ last.a2 = 177
    /\ last.r1 = 176

\* A first deposit of 176 and 178 has minted 177 shares, although
\* 177 * 177 > 176 * 178.
C28_WitnessInexact ==
    /\ FirstDepositCommitted
    /\ last.a1 * last.a2 = ExactSqrtLimit + 1
    /\ last.r1 * last.r1 > last.a1 * last.a2

====
